---------------------------- MODULE Spec2Model ----------------------------
(***************************************************************************)
(* A model of express-to-openapi: the route collector                      *)
(* (extractRoutesFromExpressApp and the walk.simple visitors), the handler *)
(* analysis (analyzeRouteHandler and its helpers) and the assembler        *)
(* (generateOpenAPISpec) of src/src/express-to-openapi.js, lines 1-719,    *)
(* and the collector of the variant kept in src/unnamed/part_002.          *)
(*                                                                         *)
(* Source text is a sequence of one-character strings; every regular       *)
(* expression of the source is a sequence of items (a character class and  *)
(* a quantifier) matched by the small backtracking matcher below, so the   *)
(* heuristics are computed over the characters exactly as the code does.   *)
(***************************************************************************)
EXTENDS Integers, Sequences, FiniteSets, TLC

VARIABLES
  pc,               \* position of the run (each specification has its own positions)
  file,             \* the input file: whether it parses, and its AST nodes in walk order
  appName,          \* let appName: the name bound to express(), or NULL
  routerName,       \* let routerName: the name bound to Router(), or NULL
  visited,          \* how many nodes of the file walk.simple has handed to the visitors
  routes,           \* const routes: the Route records pushed so far
  doc,              \* the paths object built by generateOpenAPISpec, or NULL
  written,          \* what main has written to the output file, run after run
  process,          \* process.argv, whether the input path exists, stderr and the exit code
  handlerFunction,  \* the handler node analyzeRouteHandler is working on
  shape,            \* the statements handlerFunction's text was written from
  handlerCode,      \* let handlerCode
  analysis          \* const analysis = { parameters, requestBody, responses }

vars == <<pc, file, appName, routerName, visited, routes, doc, written, process,
          handlerFunction, shape, handlerCode, analysis>>

NULL == [null |-> TRUE]

(***************************************************************************)
(* Characters and strings.                                                 *)
(***************************************************************************)
LowerCh == {"a","b","c","d","e","f","g","h","i","j","k","l","m",
            "n","o","p","q","r","s","t","u","v","w","x","y","z"}
UpperCh == {"A","B","C","D","E","F","G","H","I","J","K","L","M",
            "N","O","P","Q","R","S","T","U","V","W","X","Y","Z"}
DigitCh == {"0","1","2","3","4","5","6","7","8","9"}
\* \w
WordCh == LowerCh \cup UpperCh \cup DigitCh \cup {"_"}
\* \s (the white space that occurs in the modelled texts)
SpaceCh == {" ", "\t", "\n", "\r"}
\* the line terminators that . does not match
LineEndCh == {"\n", "\r"}

\* The JavaScript string with the characters cs.
RECURSIVE Str(_)
Str(cs) == IF cs = <<>> THEN "" ELSE Head(cs) \o Str(Tail(cs))

\* String.prototype.includes
Includes(txt, lit) ==
  \E i \in 1..(Len(txt) - Len(lit) + 1) :
    \A k \in 1..Len(lit) : txt[i + k - 1] = lit[k]

\* String.prototype.startsWith
StartsWith(txt, lit) ==
  /\ Len(lit) <= Len(txt)
  /\ \A k \in 1..Len(lit) : txt[k] = lit[k]

\* String.prototype.endsWith
EndsWith(txt, lit) ==
  /\ Len(lit) <= Len(txt)
  /\ \A k \in 1..Len(lit) : txt[Len(txt) - Len(lit) + k] = lit[k]

MinOf(S) == CHOOSE s \in S : \A t \in S : s <= t
MaxOf(S) == CHOOSE s \in S : \A t \in S : t <= s

RECURSIVE Ascending(_)
Ascending(S) ==
  IF S = {} THEN <<>> ELSE <<MinOf(S)>> \o Ascending(S \ {MinOf(S)})

\* String.prototype.trim
Trim(cs) ==
  LET keep == {i \in 1..Len(cs) : cs[i] \notin SpaceCh} IN
  IF keep = {} THEN <<>> ELSE SubSeq(cs, MinOf(keep), MaxOf(keep))

\* String.prototype.split(sep) for a one-character separator
RECURSIVE Split(_, _)
Split(cs, sep) ==
  LET cuts == {i \in 1..Len(cs) : cs[i] = sep} IN
  IF cuts = {} THEN <<cs>>
  ELSE <<SubSeq(cs, 1, MinOf(cuts) - 1)>>
       \o Split(SubSeq(cs, MinOf(cuts) + 1, Len(cs)), sep)

(***************************************************************************)
(* Regular expressions.  A pattern is a sequence of items; an item is a    *)
(* character class (cls, negated when neg) with a quantifier q: "1" (one   *)
(* character), "*" or "+" (greedy).  A match is the sequence of the text   *)
(* positions at which the items start, followed by the position after the  *)
(* match; <<>> is "no match".                                              *)
(***************************************************************************)
One(c) == [cls |-> {c}, neg |-> FALSE, q |-> "1"]
RECURSIVE Lit(_)
Lit(cs) == IF cs = <<>> THEN <<>> ELSE <<One(Head(cs))>> \o Lit(Tail(cs))
Star(S) == <<[cls |-> S, neg |-> FALSE, q |-> "*"]>>
Plus(S) == <<[cls |-> S, neg |-> FALSE, q |-> "+"]>>
NotStar(S) == <<[cls |-> S, neg |-> TRUE, q |-> "*"]>>
NotPlus(S) == <<[cls |-> S, neg |-> TRUE, q |-> "+"]>>

InClass(c, item) == (c \in item.cls) # item.neg

\* The number of consecutive characters of the class from position ti on.
Run(txt, ti, item) ==
  LET stop == {j \in ti..Len(txt) : ~InClass(txt[j], item)} IN
  IF stop = {} THEN Len(txt) + 1 - ti ELSE MinOf(stop) - ti

Leftmost(R) == IF R = {} THEN <<>> ELSE CHOOSE r \in R : \A o \in R : r[1] <= o[1]

\* The number of consecutive one-character items of pat from item pi on.
Ones(pat, pi) ==
  LET other == {j \in pi..Len(pat) : pat[j].q # "1"} IN
  IF other = {} THEN Len(pat) + 1 - pi ELSE MinOf(other) - pi

\* Whether the n one-character items of pat from item pi on match the n
\* characters of txt from position ti on.
OnesMatch(pat, pi, n, txt, ti) ==
  /\ ti + n - 1 <= Len(txt)
  /\ \A k \in 0..(n - 1) : InClass(txt[ti + k], pat[pi + k])

\* The match of the items pi.. of pat at position ti of txt: a greedy item
\* takes the longest run that lets the rest of the pattern match.  The
\* one-character items that follow it (or that the pattern goes on with)
\* match character by character, each at the position after the one before,
\* so they are matched together with it; a first character that is not the
\* one the pattern begins with ends the attempt at once.
RECURSIVE MatchAt(_, _, _, _)
MatchAt(pat, pi, txt, ti) ==
  IF pi > Len(pat) THEN <<ti>>
  ELSE IF pat[pi].q = "1" /\ ~OnesMatch(pat, pi, 1, txt, ti) THEN <<>>
  ELSE LET item == pat[pi]
           greedy == item.q # "1"
           first == IF greedy THEN pi + 1 ELSE pi
           n == Ones(pat, first)
           least == IF item.q = "+" THEN 1 ELSE 0
           most == IF greedy THEN Run(txt, ti, item) ELSE 0
           rest == {<<k, MatchAt(pat, first + n, txt, ti + k + n)>> :
                      k \in {j \in least..most : OnesMatch(pat, first, n, txt, ti + j)}}
           found == {r \in rest : r[2] # <<>>}
       IN IF found = {} THEN <<>>
          ELSE LET longest == CHOOSE r \in found : \A o \in found : o[1] <= r[1] IN
               (IF greedy THEN <<ti>> ELSE <<>>)
               \o [j \in 1..n |-> ti + longest[1] + j - 1] \o longest[2]

\* The matches of pat that start at each position of txt.
MatchesAnywhere(pat, txt) ==
  {MatchAt(pat, 1, txt, s) : s \in 1..(Len(txt) + 1)} \ {<<>>}

\* RegExp.prototype.exec without the g flag, String.prototype.match(/re/):
\* the leftmost match.
Exec(pat, txt) == Leftmost(MatchesAnywhere(pat, txt))

\* The successive matches of a /g pattern (String.prototype.match(/re/g), or
\* the loop while ((match = pattern.exec(txt)) !== null)): each search
\* starts where the previous match ended.
RECURSIVE Successive(_, _)
Successive(R, from) ==
  LET later == {r \in R : r[1] >= from} IN
  IF later = {} THEN <<>>
  ELSE LET m == Leftmost(later) IN <<m>> \o Successive(R, m[Len(m)])
MatchAll(pat, txt) == Successive(MatchesAnywhere(pat, txt), 1)

\* The text of a whole match, and of the capture group that is item k.
Whole(txt, m) == SubSeq(txt, m[1], m[Len(m)] - 1)
Group(txt, m, k) == SubSeq(txt, m[k], m[k + 1] - 1)

(***************************************************************************)
(* analyzeRouteHandler (src/src/express-to-openapi.js, lines 24-340).      *)
(* Each block of the function is an operator from the analysis so far and  *)
(* handlerCode to the analysis after the block.                            *)
(***************************************************************************)
EmptyMap == [k \in {} |-> NULL]

\* String.prototype.replace(lit, "") : the first occurrence of lit removed.
RemoveFirst(cs, lit) ==
  LET at == {i \in 1..(Len(cs) - Len(lit) + 1) :
               \A k \in 1..Len(lit) : cs[i + k - 1] = lit[k]}
  IN IF at = {} THEN cs
     ELSE SubSeq(cs, 1, MinOf(at) - 1) \o SubSeq(cs, MinOf(at) + Len(lit), Len(cs))

\* /req\.query\.(\w+)/g
reQueryAccess == Lit(<<"r","e","q",".","q","u","e","r","y",".">>) \o Plus(WordCh)
\* /const\s*\{\s*([^}]+)\s*\}\s*=\s*req\.query/g
reQueryDestructure ==
  Lit(<<"c","o","n","s","t">>) \o Star(SpaceCh) \o Lit(<<"{">>) \o Star(SpaceCh) \o NotPlus({"}"})
  \o Star(SpaceCh) \o Lit(<<"}">>) \o Star(SpaceCh) \o Lit(<<"=">>) \o Star(SpaceCh)
  \o Lit(<<"r","e","q",".","q","u","e","r","y">>)
\* /\{\s*([^}]+)\s*\}/ ; its group is item 3
reBraces == Lit(<<"{">>) \o Star(SpaceCh) \o NotPlus({"}"}) \o Star(SpaceCh) \o Lit(<<"}">>)
\* /req\.body\.(\w+)/g
reBodyAccess == Lit(<<"r","e","q",".","b","o","d","y",".">>) \o Plus(WordCh)
\* /const\s*\{\s*([^}]+)\s*\}\s*=\s*req\.body/g
reBodyDestructure ==
  Lit(<<"c","o","n","s","t">>) \o Star(SpaceCh) \o Lit(<<"{">>) \o Star(SpaceCh) \o NotPlus({"}"})
  \o Star(SpaceCh) \o Lit(<<"}">>) \o Star(SpaceCh) \o Lit(<<"=">>) \o Star(SpaceCh)
  \o Lit(<<"r","e","q",".","b","o","d","y">>)

\* const props = propsMatch[1].split(",").map((p) => p.trim())
DestructuredProps(match) ==
  LET propsMatch == Exec(reBraces, match) IN
  IF propsMatch = <<>> THEN <<>>
  ELSE LET parts == Split(Group(match, propsMatch, 3), ",") IN
       [i \in 1..Len(parts) |-> Str(Trim(parts[i]))]

\* q and query taken as required
QueryParameterSearchRequired(name) ==
  [name |-> name, in |-> "query", required |-> name \in {"q", "query"},
   schema |-> [type |-> "string"]]

\* lines 50-55 and 71-76: the parameter pushed for a query name
QueryParameter(name) ==
  [name |-> name, in |-> "query", required |-> FALSE, schema |-> [type |-> "string"]]

\* if (!analysis.parameters.find((p) => p.name === param)) analysis.parameters.push(...)
RECURSIVE PushQueryParameters(_, _)
PushQueryParameters(parameters, names) ==
  IF names = <<>> THEN parameters
  ELSE PushQueryParameters(
         IF \E i \in 1..Len(parameters) : parameters[i].name = Head(names)
         THEN parameters
         ELSE Append(parameters, QueryParameter(Head(names))),
         Tail(names))

\* lines 44-58: Extract query parameters
ExtractQueryParameters(a, code) ==
  LET queryMatches == MatchAll(reQueryAccess, code)
      names == [i \in 1..Len(queryMatches) |->
                  Str(RemoveFirst(Whole(code, queryMatches[i]), <<"r","e","q",".","q","u","e","r","y",".">>))]
  IN [a EXCEPT !.parameters = PushQueryParameters(@, names)]

RECURSIVE Flatten(_)
Flatten(ss) == IF ss = <<>> THEN <<>> ELSE Head(ss) \o Flatten(Tail(ss))

\* lines 60-81: Extract query parameter destructuring patterns
ExtractQueryDestructuring(a, code) ==
  LET queryDestructureMatches == MatchAll(reQueryDestructure, code)
      names == Flatten([i \in 1..Len(queryDestructureMatches) |->
                  DestructuredProps(Whole(code, queryDestructureMatches[i]))])
  IN [a EXCEPT !.parameters = PushQueryParameters(@, names)]

\* lines 90-106: Try to infer type from common patterns (member access)
BodyAccessType(prop) ==
  IF Includes(prop, <<"i","d">>) \/ Includes(prop, <<"I","d">>) THEN "string"
  ELSE IF \/ Includes(prop, <<"c","o","m","p","l","e","t","e","d">>)
          \/ Includes(prop, <<"a","c","t","i","v","e">>)
          \/ Includes(prop, <<"e","n","a","b","l","e","d">>) THEN "boolean"
  ELSE IF \/ Includes(prop, <<"c","o","u","n","t">>)
          \/ Includes(prop, <<"a","g","e">>)
          \/ Includes(prop, <<"p","r","i","c","e">>) THEN "integer"
  ELSE "string"

\* Every destructured property a string
BodyDestructureTypeString(prop) == "string"

\* lines 152-166: Infer type from property name (destructuring)
BodyDestructureType(prop) ==
  IF \/ Includes(prop, <<"c","o","m","p","l","e","t","e","d">>)
     \/ Includes(prop, <<"a","c","t","i","v","e">>)
     \/ Includes(prop, <<"e","n","a","b","l","e","d">>) THEN "boolean"
  ELSE IF \/ Includes(prop, <<"c","o","u","n","t">>)
          \/ Includes(prop, <<"a","g","e">>)
          \/ Includes(prop, <<"p","r","i","c","e">>) THEN "integer"
  ELSE "string"

\* No name marked
CommonRequiredNone(name) == FALSE

\* lines 118-121, 170-173: Mark common required fields
CommonRequired(name) == name \in {"title", "name", "email"}

\* The elements of a sequence that satisfy Keep, in order.
RECURSIVE SelectRequired(_)
SelectRequired(names) ==
  IF names = <<>> THEN <<>>
  ELSE (IF CommonRequired(Head(names)) THEN <<Head(names)>> ELSE <<>>)
       \o SelectRequired(Tail(names))

\* The keys of a Map in insertion order: each name once, at its first place.
RECURSIVE InsertionOrder(_)
InsertionOrder(names) ==
  IF names = <<>> THEN <<>>
  ELSE LET before == InsertionOrder(SubSeq(names, 1, Len(names) - 1))
           last == names[Len(names)]
       IN IF \E i \in 1..Len(before) : before[i] = last THEN before
          ELSE Append(before, last)

\* lines 124-135, 182-193: the requestBody object; properties maps each name to
\* its schema, and the schema has a required array only when it is not empty.
RequestBody(properties, required) ==
  [required |-> TRUE,
   schema |-> IF required = <<>>
              THEN [type |-> "object", properties |-> properties]
              ELSE [type |-> "object", properties |-> properties,
                    required |-> required]]

\* lines 83-137: Enhanced request body analysis with type inference
AnalyzeRequestBody(a, code) ==
  LET bodyMatches == MatchAll(reBodyAccess, code)
      props == [i \in 1..Len(bodyMatches) |->
                  RemoveFirst(Whole(code, bodyMatches[i]), <<"r","e","q",".","b","o","d","y",".">>)]
      keys == InsertionOrder([i \in 1..Len(props) |-> Str(props[i])])
      \* bodyProps.set(prop, type): the last set for a name stays
      TypeOf(name) == BodyAccessType(
                        props[MaxOf({i \in 1..Len(props) : Str(props[i]) = name})])
      properties == [name \in {keys[i] : i \in 1..Len(keys)} |->
                       [type |-> TypeOf(name)]]
  IN IF bodyMatches = <<>> THEN a
     ELSE [a EXCEPT !.requestBody = RequestBody(properties, SelectRequired(keys))]

\* lines 144-196: the body of bodyDestructureMatches.forEach for one match
BodyDestructureMatch(a, match) ==
  LET propsMatch == Exec(reBraces, match)
      parts == Split(Group(match, propsMatch, 3), ",")
      props == [i \in 1..Len(parts) |-> Trim(parts[i])]
      names == [i \in 1..Len(props) |-> Str(props[i])]
      TypeOf(name) == BodyDestructureType(
                        props[MaxOf({i \in 1..Len(props) : names[i] = name})])
      properties == [name \in {names[i] : i \in 1..Len(names)} |->
                       [type |-> TypeOf(name)]]
  IN IF propsMatch = <<>> THEN a
     ELSE [a EXCEPT !.requestBody = RequestBody(properties, SelectRequired(names))]

RECURSIVE BodyDestructureMatches(_, _)
BodyDestructureMatches(a, matches) ==
  IF matches = <<>> THEN a
  ELSE BodyDestructureMatches(BodyDestructureMatch(a, Head(matches)), Tail(matches))

\* The first destructuring taken, and only while requestBody is not set
ExtractBodyDestructuringIfAbsent(a, code) ==
  LET bodyDestructureMatches == MatchAll(reBodyDestructure, code) IN
  IF a.requestBody # NULL \/ bodyDestructureMatches = <<>> THEN a
  ELSE BodyDestructureMatch(a, Whole(code, bodyDestructureMatches[1]))

\* lines 139-197: Extract body parameter destructuring patterns
ExtractBodyDestructuring(a, code) ==
  LET bodyDestructureMatches == MatchAll(reBodyDestructure, code) IN
  BodyDestructureMatches(a, [i \in 1..Len(bodyDestructureMatches) |->
                               Whole(code, bodyDestructureMatches[i])])

(***************************************************************************)
(* Response schemas (lines 342-475).                                       *)
(***************************************************************************)
StringType == [type |-> "string"]
BooleanType == [type |-> "boolean"]
OpaqueObject == [type |-> "object"]
ObjectOf(properties) == [type |-> "object", properties |-> properties]
ArrayOf(items) == [type |-> "array", items |-> items]

\* { _id: string, title: string, completed: boolean }
TodoProperties ==
  ("_id" :> StringType) @@ ("title" :> StringType) @@ ("completed" :> BooleanType)
\* { message: string }
MessageProperties == ("message" :> StringType)

\* /(\w+):\s*req\.body\.(\w+)/g ; group 1 is item 1
rePropertyAssignment ==
  Plus(WordCh) \o Lit(<<":">>) \o Star(SpaceCh) \o Lit(<<"r","e","q",".","b","o","d","y",".">>) \o Plus(WordCh)

\* lines 429-461
inferObjectProperties(expression, code) ==
  LET todo == IF Includes(code, <<"T","o","d","o">>) \/ Includes(code, <<"t","o","d","o">>)
              THEN TodoProperties ELSE EmptyMap
      user == IF Includes(code, <<"U","s","e","r">>) \/ Includes(code, <<"u","s","e","r">>)
              THEN ("_id" :> StringType) @@ ("name" :> StringType)
                   @@ ("email" :> StringType)
              ELSE EmptyMap
      propertyMatches == MatchAll(rePropertyAssignment, code)
      \* const parts = match.split(":"); if (parts.length === 2) ...
      assigned == {Str(Trim(Split(Whole(code, propertyMatches[i]), ":")[1])) :
                     i \in {j \in 1..Len(propertyMatches) :
                              Len(Split(Whole(code, propertyMatches[j]), ":")) = 2}}
      \* a later assignment to properties[key] replaces the earlier value
      properties == [name \in assigned |-> StringType] @@ user @@ todo
  IN IF DOMAIN properties # {} THEN properties ELSE ("_id" :> StringType)

\* No inference from the data expression: every schema {type: "object"}
analyzeResponseSchemaOpaque(dataExpression, code, statusCode) == OpaqueObject

\* lines 342-427
analyzeResponseSchema(dataExpression, code, statusCode) ==
  IF dataExpression = NULL \/ dataExpression = <<>> THEN OpaqueObject
  ELSE LET expr == Trim(dataExpression) IN
    IF \/ Includes(expr, <<"t","o","d","o","s">>)
       \/ Includes(expr, <<"u","s","e","r","s">>)
       \/ Includes(expr, <<"i","t","e","m","s">>)
    THEN ArrayOf(ObjectOf(inferObjectProperties(expr, code)))
    ELSE IF \/ Includes(expr, <<"T","o","d","o">>)
            \/ Includes(expr, <<"U","s","e","r">>)
            \/ Includes(expr, <<"I","t","e","m">>)
    THEN ObjectOf(inferObjectProperties(expr, code))
    ELSE IF \/ Includes(expr, <<"n","e","w","T","o","d","o">>)
            \/ Includes(expr, <<"u","p","d","a","t","e","d","T","o","d","o">>)
            \/ Includes(expr, <<"d","e","l","e","t","e","d","T","o","d","o">>)
    THEN ObjectOf(TodoProperties)
    ELSE IF Includes(expr, <<"{"," ","m","e","s","s","a","g","e",":">>) \/ Includes(expr, <<"'","T","o","d","o"," ","d","e","l","e","t","e","d","'">>)
    THEN ObjectOf(MessageProperties)
    ELSE IF statusCode = "201"
    THEN ObjectOf(TodoProperties)
    ELSE IF statusCode = "200" /\ Includes(code, <<"f","i","n","d","(",")">>)
    THEN ArrayOf(ObjectOf(TodoProperties))
    ELSE OpaqueObject

\* lines 463-475
getResponseDescription(statusCode) ==
  CASE statusCode = "200" -> "Success"
    [] statusCode = "201" -> "Created"
    [] statusCode = "204" -> "No Content"
    [] statusCode = "400" -> "Bad Request"
    [] statusCode = "401" -> "Unauthorized"
    [] statusCode = "403" -> "Forbidden"
    [] statusCode = "404" -> "Not Found"
    [] statusCode = "500" -> "Internal Server Error"
    [] OTHER -> "Response"

\* One entry of analysis.responses (its content is always application/json).
Response(description, schema) == [description |-> description, schema |-> schema]
MessageResponse(description) == Response(description, ObjectOf(MessageProperties))

\* The entry assigned whether or not the status code has one
InsertAlways(responses, statusCode, entry) == (statusCode :> entry) @@ responses

\* if (!analysis.responses[statusCode]) analysis.responses[statusCode] = entry
InsertIfAbsent(responses, statusCode, entry) ==
  IF statusCode \in DOMAIN responses THEN responses
  ELSE responses @@ (statusCode :> entry)

(***************************************************************************)
(* Response detection (lines 199-248).                                     *)
(***************************************************************************)
\* res\.status\(\s*(\d+)\s*\) up to its group, and the item that is the group
reStatusHead == Lit(<<"r","e","s",".","s","t","a","t","u","s","(">>) \o Star(SpaceCh)
reStatusCall == reStatusHead \o Plus(DigitCh) \o Star(SpaceCh)
\* \s*\(\s*([^)]+)\s*\) up to its group
reDataHead == Star(SpaceCh) \o Lit(<<"(">>) \o Star(SpaceCh)
reData == reDataHead \o NotPlus({")"}) \o Star(SpaceCh) \o Lit(<<")">>)
\* /res\.status\(\s*(\d+)\s*\)\.json\s*\(\s*([^)]+)\s*\)/g
reStatusJsonHead == reStatusCall \o Lit(<<")",".","j","s","o","n">>)
reStatusJsonData == reStatusJsonHead \o reData
\* /res\.json\s*\(\s*([^)]+)\s*\)/g
reJsonHead == Lit(<<"r","e","s",".","j","s","o","n">>)
reJsonData == reJsonHead \o reData
\* /res\.status\(\s*(\d+)\s*\)\.json\s*\(/g
reStatusJson == reStatusJsonHead \o Star(SpaceCh) \o Lit(<<"(">>)
\* /res\.json\s*\(/g
reJson == reJsonHead \o Star(SpaceCh) \o Lit(<<"(">>)
\* /res\.status\(\s*(\d+)\s*\)\.send\s*\(/g
reStatusSend == reStatusCall \o Lit(<<")",".","s","e","n","d">>) \o Star(SpaceCh) \o Lit(<<"(">>)
\* /res\.send\s*\(/g
reSend == Lit(<<"r","e","s",".","s","e","n","d">>) \o Star(SpaceCh) \o Lit(<<"(">>)

\* const responsePatterns; status and data are the items that are the groups
\* holding the status code and the data expression (0: no such group)
responsePatterns ==
  << [pattern |-> reStatusJsonData, hasStatus |-> TRUE, hasData |-> TRUE,
      status |-> Len(reStatusHead) + 1,
      data |-> Len(reStatusJsonHead) + Len(reDataHead) + 1],
     [pattern |-> reJsonData, hasStatus |-> FALSE, hasData |-> TRUE,
      status |-> 0, data |-> Len(reJsonHead) + Len(reDataHead) + 1],
     [pattern |-> reStatusJson, hasStatus |-> TRUE, hasData |-> FALSE,
      status |-> Len(reStatusHead) + 1, data |-> 0],
     [pattern |-> reJson, hasStatus |-> FALSE, hasData |-> FALSE,
      status |-> 0, data |-> 0],
     [pattern |-> reStatusSend, hasStatus |-> TRUE, hasData |-> FALSE,
      status |-> Len(reStatusHead) + 1, data |-> 0],
     [pattern |-> reSend, hasStatus |-> FALSE, hasData |-> FALSE,
      status |-> 0, data |-> 0] >>

\* The captured status code ignored: every match registered under "200"
ResponseMatchDefaultStatus(responses, p, code, match) ==
  LET dataExpression == IF p.hasData THEN Group(code, match, p.data) ELSE NULL
  IN InsertIfAbsent(responses, "200",
       Response(getResponseDescription("200"),
                analyzeResponseSchema(dataExpression, code, "200")))

\* lines 228-246: the body of the while loop for one match of pattern p
ResponseMatch(responses, p, code, match) ==
  LET statusCode == IF p.hasStatus THEN Str(Group(code, match, p.status)) ELSE "200"
      dataExpression == IF p.hasData THEN Group(code, match, p.data) ELSE NULL
  IN InsertIfAbsent(responses, statusCode,
       Response(getResponseDescription(statusCode),
                analyzeResponseSchema(dataExpression, code, statusCode)))

RECURSIVE ResponseMatches(_, _, _, _)
ResponseMatches(responses, p, code, matches) ==
  IF matches = <<>> THEN responses
  ELSE ResponseMatches(ResponseMatch(responses, p, code, Head(matches)),
                       p, code, Tail(matches))

\* The patterns tried from the last one to the first
RECURSIVE ResponsePatternsLastFirst(_, _, _)
ResponsePatternsLastFirst(responses, patterns, code) ==
  IF patterns = <<>> THEN responses
  ELSE ResponsePatternsLastFirst(
         ResponseMatches(responses, patterns[Len(patterns)], code,
                         MatchAll(patterns[Len(patterns)].pattern, code)),
         SubSeq(patterns, 1, Len(patterns) - 1), code)

RECURSIVE ResponsePatterns(_, _, _)
ResponsePatterns(responses, patterns, code) ==
  IF patterns = <<>> THEN responses
  ELSE ResponsePatterns(
         ResponseMatches(responses, Head(patterns), code,
                         MatchAll(Head(patterns).pattern, code)),
         Tail(patterns), code)

\* lines 199-248: Enhanced response analysis with schema detection
AnalyzeResponses(a, code) ==
  [a EXCEPT !.responses = ResponsePatterns(@, responsePatterns, code)]

(***************************************************************************)
(* Error responses, not-found responses and the default (lines 250-339).   *)
(***************************************************************************)
\* /catch.*res\.status\(\s*(\d+)\s*\)/ ; . matches no line terminator
reCatchHead == Lit(<<"c","a","t","c","h">>) \o NotStar(LineEndCh) \o reStatusHead
reCatchStatus == reCatchHead \o Plus(DigitCh) \o Star(SpaceCh) \o Lit(<<")">>)
\* /catch.*res\.status\(\s*500\s*\)/
reCatch500 == reCatchHead \o Lit(<<"5","0","0">>) \o Star(SpaceCh) \o Lit(<<")">>)
\* /catch.*res\.status\(\s*400\s*\)/
reCatch400 == reCatchHead \o Lit(<<"4","0","0">>) \o Star(SpaceCh) \o Lit(<<")">>)

\* const errorPatterns; group is the item of the pattern's capture group (0: none)
errorPatterns ==
  << [pattern |-> reCatchStatus, type |-> "specific", group |-> Len(reCatchHead) + 1],
     [pattern |-> reCatch500, type |-> "server", group |-> 0],
     [pattern |-> reCatch400, type |-> "client", group |-> 0] >>

\* lines 260-282: errorPatterns.forEach; errorMatch[1] || "500"
RECURSIVE ErrorPatterns(_, _, _)
ErrorPatterns(responses, patterns, code) ==
  IF patterns = <<>> THEN responses
  ELSE LET p == Head(patterns)
           errorMatch == Exec(p.pattern, code)
           errorCode == IF p.group # 0 THEN Str(Group(code, errorMatch, p.group))
                        ELSE "500"
       IN ErrorPatterns(
            IF errorMatch = <<>> THEN responses
            ELSE InsertIfAbsent(responses, errorCode,
                                MessageResponse(getResponseDescription(errorCode))),
            Tail(patterns), code)

\* let hasSpecificErrorHandling, after the forEach
hasSpecificErrorHandling(code) ==
  \E i \in 1..Len(errorPatterns) : Exec(errorPatterns[i].pattern, code) # <<>>

\* lines 250-300: Add specific error responses based on code analysis
AddErrorResponses(a, code) ==
  IF Includes(code, <<"t","r","y">>) /\ Includes(code, <<"c","a","t","c","h">>)
  THEN LET specific == ErrorPatterns(a.responses, errorPatterns, code) IN
       [a EXCEPT !.responses =
          IF ~hasSpecificErrorHandling(code)
          THEN InsertIfAbsent(specific, "500", MessageResponse("Internal Server Error"))
          ELSE specific]
  ELSE a

\* lines 302-325: Add 404 for routes with ID params that check for existence
AddNotFound(a, code) ==
  IF /\ \/ Includes(code, <<"f","i","n","d","B","y","I","d">>)
        \/ Includes(code, <<"f","i","n","d","B","y","I","d","A","n","d","U","p","d","a","t","e">>)
        \/ Includes(code, <<"f","i","n","d","B","y","I","d","A","n","d","D","e","l","e","t","e">>)
     /\ Includes(code, <<"n","o","t"," ","f","o","u","n","d">>) \/ Includes(code, <<"4","0","4">>)
  THEN [a EXCEPT !.responses =
          InsertIfAbsent(@, "404", MessageResponse("Resource not found"))]
  ELSE a

\* The success response left out
EnsureSuccessResponseSkipped(a) == a

\* lines 327-337: Ensure at least one success response exists
EnsureSuccessResponse(a) ==
  IF DOMAIN a.responses = {}
  THEN [a EXCEPT !.responses = ("200" :> Response("Success", OpaqueObject))]
  ELSE a

\* lines 33-42: let handlerCode
HandlerCodeOf(node) ==
  IF node.type \in {"FunctionExpression", "ArrowFunctionExpression"}
  THEN node.text ELSE <<>>

\* lines 25-29: const analysis
EmptyAnalysis == [parameters |-> <<>>, requestBody |-> NULL, responses |-> EmptyMap]

\* lines 24-340
analyzeRouteHandler(node) ==
  IF node = NULL THEN EmptyAnalysis
  ELSE LET code == HandlerCodeOf(node) IN
    EnsureSuccessResponse(
      AddNotFound(
        AddErrorResponses(
          AnalyzeResponses(
            ExtractBodyDestructuring(
              AnalyzeRequestBody(
                ExtractQueryDestructuring(
                  ExtractQueryParameters(EmptyAnalysis, code), code), code), code),
            code), code), code))

(***************************************************************************)
(* Path parameters (lines 477-498).                                        *)
(***************************************************************************)
\* /:(\w+)/g
rePathParam == Lit(<<":">>) \o Plus(WordCh)

PathParameter(name) ==
  [name |-> name, in |-> "path", required |-> TRUE, schema |-> StringType]

\* lines 477-493; paramName = match.substring(1)
extractPathParams(routePath) ==
  LET paramMatches == MatchAll(rePathParam, routePath) IN
  [i \in 1..Len(paramMatches) |->
     PathParameter(Str(SubSeq(Whole(routePath, paramMatches[i]), 2,
                              Len(Whole(routePath, paramMatches[i])))))]

\* routePath.replace(/:(\w+)/g, "{$1}") from text position from on
RECURSIVE ReplacePathParams(_, _, _)
ReplacePathParams(routePath, matches, from) ==
  IF matches = <<>> THEN SubSeq(routePath, from, Len(routePath))
  ELSE LET m == Head(matches) IN
       SubSeq(routePath, from, m[1] - 1)
       \o <<"{">> \o Group(routePath, m, 2) \o <<"}">>
       \o ReplacePathParams(routePath, Tail(matches), m[Len(m)])

\* Only the first parameter rewritten: replace without the g flag
convertRouteToOpenAPIFirst(routePath) ==
  LET first == Exec(rePathParam, routePath) IN
  ReplacePathParams(routePath, IF first = <<>> THEN <<>> ELSE <<first>>, 1)

\* The path left as it is written
convertRouteToOpenAPIUnchanged(routePath) == routePath

\* lines 495-498
convertRouteToOpenAPI(routePath) ==
  ReplacePathParams(routePath, MatchAll(rePathParam, routePath), 1)

\* lines 579-591: the Route pushed for an accepted call
Route(path, httpMethod, a) ==
  [path |-> convertRouteToOpenAPI(path),
   method |-> httpMethod,
   parameters |-> extractPathParams(path) \o a.parameters,
   requestBody |-> a.requestBody,
   responses |-> a.responses]

(***************************************************************************)
(* Handler texts.  A handler is written from statements: those before a    *)
(* try block, those inside it and those inside its catch block, laid out   *)
(* on one line or on a line each.  The statements are those of the         *)
(* README's Todo example and a few more of the same kinds.                 *)
(***************************************************************************)
StatementText(s) ==
  CASE s = "find" ->
       \* const todos = await Todo.find();
       <<"c","o","n","s","t"," ","t","o","d","o","s"," ","="," ","a","w","a","i","t"," ","T","o","d","o",".","f","i","n","d","(",")",";">>
    [] s = "jsonTodos" ->
       \* res.json(todos);
       <<"r","e","s",".","j","s","o","n","(","t","o","d","o","s",")",";">>
    [] s = "status500" ->
       \* res.status(500).json({ message: err.message });
       <<"r","e","s",".","s","t","a","t","u","s","(","5","0","0",")",".","j","s","o","n","(","{"," ","m","e","s","s","a","g","e",":"," ","e","r","r",".","m","e","s","s","a","g","e"," ","}",")",";">>
    [] s = "bodyTitle" ->
       \* const { title } = req.body;
       <<"c","o","n","s","t"," ","{"," ","t","i","t","l","e"," ","}"," ","="," ","r","e","q",".","b","o","d","y",";">>
    [] s = "newTodo" ->
       \* const todo = new Todo({ title });
       <<"c","o","n","s","t"," ","t","o","d","o"," ","="," ","n","e","w"," ","T","o","d","o","(","{"," ","t","i","t","l","e"," ","}",")",";">>
    [] s = "save" ->
       \* const newTodo = await todo.save();
       <<"c","o","n","s","t"," ","n","e","w","T","o","d","o"," ","="," ","a","w","a","i","t"," ","t","o","d","o",".","s","a","v","e","(",")",";">>
    [] s = "status201" ->
       \* res.status(201).json(newTodo);
       <<"r","e","s",".","s","t","a","t","u","s","(","2","0","1",")",".","j","s","o","n","(","n","e","w","T","o","d","o",")",";">>
    [] s = "status400" ->
       \* res.status(400).json({ message: err.message });
       <<"r","e","s",".","s","t","a","t","u","s","(","4","0","0",")",".","j","s","o","n","(","{"," ","m","e","s","s","a","g","e",":"," ","e","r","r",".","m","e","s","s","a","g","e"," ","}",")",";">>
    [] s = "bodyCompleted" ->
       \* const { completed } = req.body;
       <<"c","o","n","s","t"," ","{"," ","c","o","m","p","l","e","t","e","d"," ","}"," ","="," ","r","e","q",".","b","o","d","y",";">>
    [] s = "findByIdAndUpdate" ->
       \* const updatedTodo = await Todo.findByIdAndUpdate(req.params.id, { completed }, { new: true });
       <<"c","o","n","s","t"," ","u","p","d","a","t","e","d","T","o","d","o"," ","="," ","a","w","a","i","t"," ","T","o","d","o",".","f","i","n","d","B","y","I","d","A","n","d","U","p","d","a","t","e","(","r","e","q",".","p","a","r","a","m","s",".","i","d",","," ","{"," ","c","o","m","p","l","e","t","e","d"," ","}",","," ","{"," ","n","e","w",":"," ","t","r","u","e"," ","}",")",";">>
    [] s = "guard404" ->
       \* if (!updatedTodo) { return res.status(404).json({ message: 'Todo not found' }); }
       <<"i","f"," ","(","!","u","p","d","a","t","e","d","T","o","d","o",")"," ","{"," ","r","e","t","u","r","n"," ","r","e","s",".","s","t","a","t","u","s","(","4","0","4",")",".","j","s","o","n","(","{"," ","m","e","s","s","a","g","e",":"," ","'","T","o","d","o"," ","n","o","t"," ","f","o","u","n","d","'"," ","}",")",";"," ","}">>
    [] s = "jsonUpdated" ->
       \* res.json(updatedTodo);
       <<"r","e","s",".","j","s","o","n","(","u","p","d","a","t","e","d","T","o","d","o",")",";">>
    [] s = "next" ->
       \* next(err);
       <<"n","e","x","t","(","e","r","r",")",";">>
    [] s = "findById" ->
       \* const todo = await Todo.findById(req.params.id);
       <<"c","o","n","s","t"," ","t","o","d","o"," ","="," ","a","w","a","i","t"," ","T","o","d","o",".","f","i","n","d","B","y","I","d","(","r","e","q",".","p","a","r","a","m","s",".","i","d",")",";">>
    [] s = "nextNotFound" ->
       \* if (!todo) return next(new Error('not found'));
       <<"i","f"," ","(","!","t","o","d","o",")"," ","r","e","t","u","r","n"," ","n","e","x","t","(","n","e","w"," ","E","r","r","o","r","(","'","n","o","t"," ","f","o","u","n","d","'",")",")",";">>
    [] s = "status422" ->
       \* res.status(422).send();
       <<"r","e","s",".","s","t","a","t","u","s","(","4","2","2",")",".","s","e","n","d","(",")",";">>
    [] s = "queryQ" ->
       \* const { q } = req.query;
       <<"c","o","n","s","t"," ","{"," ","q"," ","}"," ","="," ","r","e","q",".","q","u","e","r","y",";">>
    [] s = "queryPage" ->
       \* const page = req.query.page;
       <<"c","o","n","s","t"," ","p","a","g","e"," ","="," ","r","e","q",".","q","u","e","r","y",".","p","a","g","e",";">>
    [] s = "queryPageLimit" ->
       \* const { page = 1, limit } = req.query;
       <<"c","o","n","s","t"," ","{"," ","p","a","g","e"," ","="," ","1",","," ","l","i","m","i","t"," ","}"," ","="," ","r","e","q",".","q","u","e","r","y",";">>
    [] s = "queryAccessQ" ->
       \* const q = req.query.q;
       <<"c","o","n","s","t"," ","q"," ","="," ","r","e","q",".","q","u","e","r","y",".","q",";">>
    [] s = "queryQuerySort" ->
       \* const { query, sort } = req.query;
       <<"c","o","n","s","t"," ","{"," ","q","u","e","r","y",","," ","s","o","r","t"," ","}"," ","="," ","r","e","q",".","q","u","e","r","y",";">>
    [] s = "queryAccessQuery" ->
       \* const term = req.query.query;
       <<"c","o","n","s","t"," ","t","e","r","m"," ","="," ","r","e","q",".","q","u","e","r","y",".","q","u","e","r","y",";">>
    [] s = "bodyTitleCompleted" ->
       \* const { title, completed } = req.body;
       <<"c","o","n","s","t"," ","{"," ","t","i","t","l","e",","," ","c","o","m","p","l","e","t","e","d"," ","}"," ","="," ","r","e","q",".","b","o","d","y",";">>
    [] s = "bodyAge" ->
       \* const age = req.body.age;
       <<"c","o","n","s","t"," ","a","g","e"," ","="," ","r","e","q",".","b","o","d","y",".","a","g","e",";">>
    [] s = "body.message" ->
       \* const message = req.body.message;
       <<"c","o","n","s","t"," ","m","e","s","s","a","g","e"," ","="," ","r","e","q",".","b","o","d","y",".","m","e","s","s","a","g","e",";">>
    [] s = "body.page" ->
       \* const page = req.body.page;
       <<"c","o","n","s","t"," ","p","a","g","e"," ","="," ","r","e","q",".","b","o","d","y",".","p","a","g","e",";">>
    [] s = "body.discount" ->
       \* const discount = req.body.discount;
       <<"c","o","n","s","t"," ","d","i","s","c","o","u","n","t"," ","="," ","r","e","q",".","b","o","d","y",".","d","i","s","c","o","u","n","t",";">>
    [] s = "body.language" ->
       \* const language = req.body.language;
       <<"c","o","n","s","t"," ","l","a","n","g","u","a","g","e"," ","="," ","r","e","q",".","b","o","d","y",".","l","a","n","g","u","a","g","e",";">>
    [] s = "body.completed" ->
       \* const completed = req.body.completed;
       <<"c","o","n","s","t"," ","c","o","m","p","l","e","t","e","d"," ","="," ","r","e","q",".","b","o","d","y",".","c","o","m","p","l","e","t","e","d",";">>
    [] s = "body.active" ->
       \* const active = req.body.active;
       <<"c","o","n","s","t"," ","a","c","t","i","v","e"," ","="," ","r","e","q",".","b","o","d","y",".","a","c","t","i","v","e",";">>
    [] s = "body.enabled" ->
       \* const enabled = req.body.enabled;
       <<"c","o","n","s","t"," ","e","n","a","b","l","e","d"," ","="," ","r","e","q",".","b","o","d","y",".","e","n","a","b","l","e","d",";">>
    [] s = "body.age" ->
       \* const age = req.body.age;
       <<"c","o","n","s","t"," ","a","g","e"," ","="," ","r","e","q",".","b","o","d","y",".","a","g","e",";">>
    [] s = "body.count" ->
       \* const count = req.body.count;
       <<"c","o","n","s","t"," ","c","o","u","n","t"," ","="," ","r","e","q",".","b","o","d","y",".","c","o","u","n","t",";">>
    [] s = "body.price" ->
       \* const price = req.body.price;
       <<"c","o","n","s","t"," ","p","r","i","c","e"," ","="," ","r","e","q",".","b","o","d","y",".","p","r","i","c","e",";">>
    [] s = "body.title" ->
       \* const title = req.body.title;
       <<"c","o","n","s","t"," ","t","i","t","l","e"," ","="," ","r","e","q",".","b","o","d","y",".","t","i","t","l","e",";">>
    [] s = "body.name" ->
       \* const name = req.body.name;
       <<"c","o","n","s","t"," ","n","a","m","e"," ","="," ","r","e","q",".","b","o","d","y",".","n","a","m","e",";">>
    [] s = "body.email" ->
       \* const email = req.body.email;
       <<"c","o","n","s","t"," ","e","m","a","i","l"," ","="," ","r","e","q",".","b","o","d","y",".","e","m","a","i","l",";">>
    [] s = "body.videoPage" ->
       \* const videoPage = req.body.videoPage;
       <<"c","o","n","s","t"," ","v","i","d","e","o","P","a","g","e"," ","="," ","r","e","q",".","b","o","d","y",".","v","i","d","e","o","P","a","g","e",";">>
    [] s = "{message}" ->
       \* const { message } = req.body;
       <<"c","o","n","s","t"," ","{"," ","m","e","s","s","a","g","e"," ","}"," ","="," ","r","e","q",".","b","o","d","y",";">>
    [] s = "{page}" ->
       \* const { page } = req.body;
       <<"c","o","n","s","t"," ","{"," ","p","a","g","e"," ","}"," ","="," ","r","e","q",".","b","o","d","y",";">>
    [] s = "{discount}" ->
       \* const { discount } = req.body;
       <<"c","o","n","s","t"," ","{"," ","d","i","s","c","o","u","n","t"," ","}"," ","="," ","r","e","q",".","b","o","d","y",";">>
    [] s = "{language}" ->
       \* const { language } = req.body;
       <<"c","o","n","s","t"," ","{"," ","l","a","n","g","u","a","g","e"," ","}"," ","="," ","r","e","q",".","b","o","d","y",";">>
    [] s = "{completed}" ->
       \* const { completed } = req.body;
       <<"c","o","n","s","t"," ","{"," ","c","o","m","p","l","e","t","e","d"," ","}"," ","="," ","r","e","q",".","b","o","d","y",";">>
    [] s = "{active}" ->
       \* const { active } = req.body;
       <<"c","o","n","s","t"," ","{"," ","a","c","t","i","v","e"," ","}"," ","="," ","r","e","q",".","b","o","d","y",";">>
    [] s = "{enabled}" ->
       \* const { enabled } = req.body;
       <<"c","o","n","s","t"," ","{"," ","e","n","a","b","l","e","d"," ","}"," ","="," ","r","e","q",".","b","o","d","y",";">>
    [] s = "{age}" ->
       \* const { age } = req.body;
       <<"c","o","n","s","t"," ","{"," ","a","g","e"," ","}"," ","="," ","r","e","q",".","b","o","d","y",";">>
    [] s = "{count}" ->
       \* const { count } = req.body;
       <<"c","o","n","s","t"," ","{"," ","c","o","u","n","t"," ","}"," ","="," ","r","e","q",".","b","o","d","y",";">>
    [] s = "{price}" ->
       \* const { price } = req.body;
       <<"c","o","n","s","t"," ","{"," ","p","r","i","c","e"," ","}"," ","="," ","r","e","q",".","b","o","d","y",";">>
    [] s = "{title}" ->
       \* const { title } = req.body;
       <<"c","o","n","s","t"," ","{"," ","t","i","t","l","e"," ","}"," ","="," ","r","e","q",".","b","o","d","y",";">>
    [] s = "{name}" ->
       \* const { name } = req.body;
       <<"c","o","n","s","t"," ","{"," ","n","a","m","e"," ","}"," ","="," ","r","e","q",".","b","o","d","y",";">>
    [] s = "{email}" ->
       \* const { email } = req.body;
       <<"c","o","n","s","t"," ","{"," ","e","m","a","i","l"," ","}"," ","="," ","r","e","q",".","b","o","d","y",";">>
    [] s = "{videoPage}" ->
       \* const { videoPage } = req.body;
       <<"c","o","n","s","t"," ","{"," ","v","i","d","e","o","P","a","g","e"," ","}"," ","="," ","r","e","q",".","b","o","d","y",";">>
    [] s = "guardAge" ->
       \* if (!req.body.age) return next(err);
       <<"i","f"," ","(","!","r","e","q",".","b","o","d","y",".","a","g","e",")"," ","r","e","t","u","r","n"," ","n","e","x","t","(","e","r","r",")",";">>
    [] s = "send" ->
       \* res.send();
       <<"r","e","s",".","s","e","n","d","(",")",";">>
    [] s = "json" ->
       \* res.json();
       <<"r","e","s",".","j","s","o","n","(",")",";">>
    [] s = "status201send" ->
       \* res.status(201).send();
       <<"r","e","s",".","s","t","a","t","u","s","(","2","0","1",")",".","s","e","n","d","(",")",";">>
    [] s = "status201json" ->
       \* res.status(201).json();
       <<"r","e","s",".","s","t","a","t","u","s","(","2","0","1",")",".","j","s","o","n","(",")",";">>

\* The N of the res.status(N) calls written in statement s.
StatusCallsOf(s) ==
  CASE s = "status500" -> {"500"}
    [] s = "status201" -> {"201"}
    [] s = "status400" -> {"400"}
    [] s = "guard404" -> {"404"}
    [] s = "status422" -> {"422"}
    [] OTHER -> {}

\* Statement s has a res.json or res.send call without a status.
HasPlainResponse(s) == s \in {"jsonTodos", "jsonUpdated"}

\* The names statement s destructures from req.body, as written.
BodyDestructuredOf(s) ==
  CASE s = "bodyTitle" -> <<"title">>
    [] s = "bodyCompleted" -> <<"completed">>
    [] s = "bodyTitleCompleted" -> <<"title", "completed">>
    [] OTHER -> <<>>

\* The names statement s reads as req.body.<name>.
BodyAccessedOf(s) == IF s = "bodyAge" THEN <<"age">> ELSE <<>>

\* The names statement s reads from req.query.
QueryNamesOf(s) ==
  CASE s = "queryQ" -> {"q"}
    [] s = "queryPage" -> {"page"}
    [] s = "queryPageLimit" -> {"page", "limit"}
    [] s = "queryAccessQ" -> {"q"}
    [] s = "queryQuerySort" -> {"query", "sort"}
    [] s = "queryAccessQuery" -> {"query"}
    [] OTHER -> {}

OneLine == <<" ">>
LineEach == <<"\n"," "," ">>

RECURSIVE Statements(_, _)
Statements(ss, sep) ==
  IF ss = <<>> THEN <<>>
  ELSE StatementText(Head(ss)) \o sep \o Statements(Tail(ss), sep)

\* The source text of the handler written from shape sh.
HandlerText(sh) ==
  IF sh.type = "Identifier" THEN <<"l","i","s","t","T","o","d","o","s">>
  ELSE (IF sh.type = "FunctionExpression"
        THEN <<"a","s","y","n","c"," ","f","u","n","c","t","i","o","n"," ","(","r","e","q",","," ","r","e","s",")"," ","{">>
        ELSE <<"a","s","y","n","c"," ","(","r","e","q",","," ","r","e","s",")"," ","=",">"," ","{">>)
       \o sh.sep \o Statements(sh.pre, sh.sep)
       \o (IF sh.hasTry
           THEN <<"t","r","y"," ","{">> \o sh.sep \o Statements(sh.try, sh.sep)
                \o <<"}"," ","c","a","t","c","h"," ","(","e","r","r",")"," ","{">> \o sh.sep \o Statements(sh.catch, sh.sep)
                \o <<"}">> \o sh.sep
           ELSE <<>>)
       \o <<"}">>

\* The AST node of the handler: its type and the text from its start to its end.
HandlerNode(sh) == [type |-> sh.type, text |-> HandlerText(sh)]

Shape(method, path, type, pre, try, catch, hasTry, sep) ==
  [method |-> method, path |-> path, type |-> type, pre |-> pre, try |-> try,
   catch |-> catch, hasTry |-> hasTry, sep |-> sep]

\* The statements of a shape, in text order.
StatementsOf(sh) == sh.pre \o sh.try \o sh.catch

\* README, "Example: Todo API": GET all todos, POST a new todo, PATCH a todo by ID
ExampleGet(sep) ==
  Shape(<<"g","e","t">>, <<"/">>, "ArrowFunctionExpression", <<>>,
        <<"find", "jsonTodos">>, <<"status500">>, TRUE, sep)
ExamplePost(sep) ==
  Shape(<<"p","o","s","t">>, <<"/">>, "ArrowFunctionExpression", <<"bodyTitle", "newTodo">>,
        <<"save", "status201">>, <<"status400">>, TRUE, sep)
ExamplePatch(sep) ==
  Shape(<<"p","a","t","c","h">>, <<"/",":","i","d">>, "ArrowFunctionExpression", <<"bodyCompleted">>,
        <<"findByIdAndUpdate", "guard404", "jsonUpdated">>, <<"status400">>, TRUE, sep)
Examples ==
  {ExampleGet(sep) : sep \in {OneLine, LineEach}}
  \cup {ExamplePost(sep) : sep \in {OneLine, LineEach}}
  \cup {ExamplePatch(sep) : sep \in {OneLine, LineEach}}

\* The most statements a generated handler is written from.
MaxStatements == 2

SeqsUpTo(S, n) == UNION {[1..k -> S] : k \in 0..n}

ResponseStatements ==
  {"jsonTodos", "status201", "status400", "status422", "next", "findById", "nextNotFound"}
ParameterStatements ==
  {"queryQ", "queryPage", "queryPageLimit", "queryAccessQ", "queryQuerySort",
   "queryAccessQuery", "bodyTitleCompleted", "bodyAge"}
BodyStatements == {"bodyTitle", "bodyCompleted", "bodyTitleCompleted", "bodyAge"}

\* Handlers without a try block
PlainShapes ==
  {Shape(<<"g","e","t">>, <<"/">>, "ArrowFunctionExpression", pre, <<>>, <<>>, FALSE, OneLine) :
     pre \in SeqsUpTo(ResponseStatements, MaxStatements)
             \cup SeqsUpTo(ParameterStatements, MaxStatements)
             \cup SeqsUpTo(BodyStatements, MaxStatements)}
\* Handlers that are one try block with its catch block
TryShapes ==
  {Shape(<<"g","e","t">>, <<"/">>, "ArrowFunctionExpression", <<>>, b[1], b[2], TRUE, sep) :
     b \in {c \in SeqsUpTo(ResponseStatements, MaxStatements)
                  \X SeqsUpTo(ResponseStatements, MaxStatements) :
              Len(c[1]) + Len(c[2]) <= MaxStatements},
     sep \in {OneLine, LineEach}}
\* A handler that is not a function expression: router.get('/', listTodos)
OtherShapes ==
  {Shape(<<"g","e","t">>, <<"/">>, "Identifier", <<>>, <<>>, <<>>, FALSE, OneLine),
   Shape(<<"p","o","s","t">>, <<"/",":","i","d">>, "FunctionExpression", <<"jsonTodos">>, <<>>, <<>>,
         FALSE, LineEach)}

Shapes == Examples \cup PlainShapes \cup TryShapes \cup OtherShapes

(***************************************************************************)
(* The AST nodes the visitors read, with the fields they read.  A name or  *)
(* a string value is the sequence of its characters; NULL stands for a     *)
(* field that is null or undefined.                                        *)
(***************************************************************************)
Identifier(name) == [type |-> "Identifier", name |-> name]

\* const <id> = <callee>()
Declarator(id, callee) ==
  [type |-> "VariableDeclarator", id |-> Identifier(id),
   init |-> [type |-> "CallExpression", callee |-> Identifier(callee)]]

\* import { Router } from 'express'
ImportRouter ==
  [type |-> "ImportDeclaration", source |-> [value |-> <<"e","x","p","r","e","s","s">>],
   specifiers |-> << [type |-> "ImportSpecifier",
                      imported |-> Identifier(<<"R","o","u","t","e","r">>)] >>]

\* <object>.<property>(<arguments>);
CallStatement(object, property, arguments) ==
  [type |-> "ExpressionStatement",
   expression |-> [type |-> "CallExpression",
                   callee |-> [type |-> "MemberExpression",
                               object |-> Identifier(object),
                               property |-> Identifier(property),
                               computed |-> FALSE],
                   arguments |-> arguments]]

\* <object>[<property>](<arguments>); with an identifier between the brackets
ComputedCallStatement(object, property, arguments) ==
  [CallStatement(object, property, arguments) EXCEPT !.expression.callee.computed = TRUE]

\* module.exports = router;
ExportStatement ==
  [type |-> "ExpressionStatement", expression |-> [type |-> "AssignmentExpression"]]

\* a string literal
Literal(value) == [type |-> "Literal", typeof |-> "string", value |-> value]

\* a template literal without substitutions, e.g. `/todos`
TemplateLiteral(raw) == [type |-> "TemplateLiteral", quasis |-> << [value |-> [raw |-> raw]] >>]

(***************************************************************************)
(* The visitors of walk.simple (lines 500-597).                            *)
(***************************************************************************)
Alphabet ==
  <<"a","b","c","d","e","f","g","h","i","j","k","l","m",
    "n","o","p","q","r","s","t","u","v","w","x","y","z">>
Capitals ==
  <<"A","B","C","D","E","F","G","H","I","J","K","L","M",
    "N","O","P","Q","R","S","T","U","V","W","X","Y","Z">>

\* String.prototype.toLowerCase
toLowerCase(cs) ==
  [i \in 1..Len(cs) |->
     IF cs[i] \in UpperCh
     THEN Alphabet[CHOOSE k \in 1..Len(Capitals) : Capitals[k] = cs[i]]
     ELSE cs[i]]

\* String.prototype.toUpperCase
toUpperCase(cs) ==
  [i \in 1..Len(cs) |->
     IF cs[i] \in LowerCh
     THEN Capitals[CHOOSE k \in 1..Len(Alphabet) : Alphabet[k] = cs[i]]
     ELSE cs[i]]

\* The first name bound to express() kept
DeclaredAppFirst(node, app) ==
  IF /\ app = NULL
     /\ node.init # NULL
     /\ node.init.type = "CallExpression"
     /\ node.init.callee.name = <<"e","x","p","r","e","s","s">>
  THEN node.id.name ELSE app

\* lines 502-509: the appName after VariableDeclarator(node)
DeclaredApp(node, app) ==
  IF /\ node.init # NULL
     /\ node.init.type = "CallExpression"
     /\ node.init.callee.name = <<"e","x","p","r","e","s","s">>
  THEN node.id.name ELSE app

\* lines 510-517: the routerName after VariableDeclarator(node)
DeclaredRouter(node, router) ==
  IF /\ node.init # NULL
     /\ node.init.type = "CallExpression"
     /\ node.init.callee.name = <<"R","o","u","t","e","r">>
  THEN node.id.name ELSE router

\* lines 550-558
validMethods ==
  {<<"g","e","t">>, <<"p","o","s","t">>, <<"p","u","t">>, <<"p","a","t","c","h">>, <<"d","e","l","e","t","e">>, <<"h","e","a","d">>,
   <<"o","p","t","i","o","n","s">>}

\* Wildcard skip left out
SkippedNever(path) == FALSE

\* line 574: Skip middleware-like routes
Skipped(path) == path = <<"*">> \/ Includes(path, <<"*">>)

\* lines 535-596: the routes after ExpressionStatement(node)
ExpressionStatementRoutes(node, app, router, rs) ==
  LET expr == node.expression IN
  IF expr.type = "CallExpression" /\ expr.callee.type = "MemberExpression"
  THEN
    LET obj == expr.callee.object
        method == expr.callee.property
        isAppRoute == app # NULL /\ obj.name = app
        isRouterRoute == router # NULL /\ obj.name = router
    IN
    IF (isAppRoute \/ isRouterRoute) /\ method # NULL /\ method.name # NULL
    THEN
      LET httpMethod == toLowerCase(method.name) IN
      IF httpMethod \in validMethods /\ Len(expr.arguments) >= 2
      THEN
        LET routePath == expr.arguments[1]
            handler == expr.arguments[Len(expr.arguments)]
        IN
        IF routePath.type = "Literal" /\ routePath.typeof = "string"
        THEN
          LET path == routePath.value IN
          IF Skipped(path) THEN rs
          ELSE Append(rs, Route(path, httpMethod, analyzeRouteHandler(handler)))
        ELSE rs
      ELSE rs
    ELSE rs
  ELSE rs

(***************************************************************************)
(* generateOpenAPISpec (lines 606-647).                                    *)
(***************************************************************************)
\* /\{[^}]+\}/g
reBraced == Lit(<<"{">>) \o NotPlus({"}"}) \o Lit(<<"}">>)

\* path.replace(/\{[^}]+\}/g, (match) => match.toLowerCase()) from position from on
RECURSIVE LowerBraced(_, _, _)
LowerBraced(path, matches, from) ==
  IF matches = <<>> THEN SubSeq(path, from, Len(path))
  ELSE LET m == Head(matches) IN
       SubSeq(path, from, m[1] - 1) \o toLowerCase(Whole(path, m))
       \o LowerBraced(path, Tail(matches), m[Len(m)])

\* The method and the path as it is written
operationIdUnstripped(r) == r.method \o r.path

\* line 622: `${method}${path.replace(/[^a-zA-Z0-9]/g, "")}`
operationId(r) ==
  r.method \o SelectSeq(r.path, LAMBDA c : c \in LowerCh \cup UpperCh \cup DigitCh)

\* lines 616-635: the operation object of a route
Operation(r) ==
  LET operationPath == LowerBraced(r.path, MatchAll(reBraced, r.path), 1)
      pathSegments == SelectSeq(Split(r.path, "/"), LAMBDA s : s # <<>>)
      tag == IF Len(pathSegments) > 0 THEN pathSegments[1] ELSE <<"d","e","f","a","u","l","t">>
  IN [summary |-> toUpperCase(r.method) \o <<" ">> \o operationPath,
      operationId |-> operationId(r),
      tags |-> <<tag>>,
      parameters |-> IF Len(r.parameters) > 0 THEN r.parameters ELSE NULL,
      responses |-> r.responses]
     @@ (IF r.requestBody # NULL THEN [requestBody |-> r.requestBody] ELSE EmptyMap)

\* The operation of the first route of a path and method kept
RECURSIVE PathsFirst(_, _)
PathsFirst(paths, rs) ==
  IF rs = <<>> THEN paths
  ELSE LET r == Head(rs)
           item == IF r.path \in DOMAIN paths THEN paths[r.path] ELSE EmptyMap
       IN PathsFirst((r.path :> (item @@ (r.method :> Operation(r)))) @@ paths, Tail(rs))

\* lines 609-636: for (const route of routes)
RECURSIVE Paths(_, _)
Paths(paths, rs) ==
  IF rs = <<>> THEN paths
  ELSE LET r == Head(rs)
           item == IF r.path \in DOMAIN paths THEN paths[r.path] ELSE EmptyMap
       IN Paths((r.path :> ((r.method :> Operation(r)) @@ item)) @@ paths, Tail(rs))

generateOpenAPISpec(rs) ==
  [openapi |-> "3.0.0",
   info |-> [title |-> "Express API", version |-> "1.0.0",
             description |-> "API documentation generated from Express.js application"],
   paths |-> Paths(EmptyMap, rs)]

(***************************************************************************)
(* The collector kept in src/unnamed/part_002: its query parameters (lines *)
(* 93-114) and its ExpressionStatement visitor (lines 209-310).  Of the    *)
(* route it pushes, the method, the path and the parameters are modelled;  *)
(* statusCodes, hasBody and the two schemas are not.                       *)
(***************************************************************************)
\* Set.prototype.add for each of names, the set kept in insertion order
RECURSIVE AddAll(_, _)
AddAll(set, names) ==
  IF names = <<>> THEN set
  ELSE AddAll(IF \E i \in 1..Len(set) : set[i] = Head(names) THEN set
              ELSE Append(set, Head(names)),
              Tail(names))

\* part_002 lines 93-114: analysis.queryParams
Part002QueryParams(code) ==
  LET queryMatches == MatchAll(reQueryAccess, code)
      \* const paramName = match.split(".")[2]
      accessed == [i \in 1..Len(queryMatches) |->
                     Str(Split(Whole(code, queryMatches[i]), ".")[3])]
      queryDestructureMatches == MatchAll(reQueryDestructure, code)
      destructured == Flatten([i \in 1..Len(queryDestructureMatches) |->
                        DestructuredProps(Whole(code, queryDestructureMatches[i]))])
  IN AddAll(AddAll(<<>>, accessed), destructured)

\* Every query parameter optional
Part002QueryParameterOptional(param) ==
  [name |-> param, in |-> "query", required |-> FALSE, schema |-> [type |-> "string"]]

\* part_002 lines 288-296: Add query parameters
Part002QueryParameter(param) ==
  [name |-> param, in |-> "query", required |-> param = "q" \/ param = "query",
   schema |-> [type |-> "string"]]

\* Every path parameter a string
Part002PathParameterString(p1) ==
  [name |-> Str(p1), in |-> "path", required |-> TRUE, schema |-> [type |-> "string"]]

\* part_002 lines 268-286: the parameter pushed for the path parameter p1
Part002PathParameter(p1) ==
  [name |-> Str(p1), in |-> "path", required |-> TRUE,
   schema |-> [type |-> IF \/ p1 = <<"i","d">>
                           \/ EndsWith(p1, <<"I","d">>)
                           \/ EndsWith(p1, <<"_","i","d">>)
                        THEN "integer" ELSE "string"]]

\* part_002 lines 209-310: the routes after ExpressionStatement(node)
Part002ExpressionStatementRoutes(node, app, rs) ==
  LET expr == node.expression IN
  IF /\ expr.type = "CallExpression"
     /\ expr.callee.type = "MemberExpression"
     /\ app # NULL
     /\ expr.callee.object.name = app
  THEN
    LET method == toLowerCase(expr.callee.property.name)
        pathArg == IF Len(expr.arguments) >= 1 THEN expr.arguments[1] ELSE NULL
        handlerArg == IF Len(expr.arguments) >= 2 THEN expr.arguments[2] ELSE NULL
    IN
    IF method \notin validMethods THEN rs
    ELSE IF pathArg # NULL /\ pathArg.type \in {"Literal", "TemplateLiteral"}
    THEN
      LET routePath == IF pathArg.type = "Literal" THEN pathArg.value
                       ELSE pathArg.quasis[1].value.raw
      IN
      IF routePath = <<"*">> \/ ~StartsWith(routePath, <<"/">>) THEN rs
      ELSE
        LET queryParams ==
              IF /\ handlerArg # NULL
                 /\ handlerArg.type \in {"FunctionExpression", "ArrowFunctionExpression"}
              THEN Part002QueryParams(handlerArg.text) ELSE <<>>
            \* /:([a-zA-Z0-9_]+)/g
            pathMatches == MatchAll(rePathParam, routePath)
        IN Append(rs,
             [method |-> method,
              path |-> ReplacePathParams(routePath, pathMatches, 1),
              parameters |->
                [i \in 1..Len(pathMatches) |->
                   Part002PathParameter(Group(routePath, pathMatches[i], 2))]
                \o [i \in 1..Len(queryParams) |-> Part002QueryParameter(queryParams[i])]])
    ELSE rs
  ELSE rs

(***************************************************************************)
(* Spec: extractRoutesFromExpressApp on a file, then generateOpenAPISpec   *)
(* (main, lines 678-679).  walk.simple hands the nodes of the file to the  *)
(* visitors one at a time, in one pass.                                    *)
(***************************************************************************)
\* An arrow function handler with the given statements on one line
Handler(statements) ==
  HandlerNode(Shape(<<>>, <<>>, "ArrowFunctionExpression", statements, <<>>, <<>>,
                    FALSE, OneLine))

\* A handler given by name: listTodos
NamedHandler ==
  HandlerNode(Shape(<<>>, <<>>, "Identifier", <<>>, <<>>, <<>>, FALSE, OneLine))

app == <<"a","p","p">>
router == <<"r","o","u","t","e","r">>

\* The top-level nodes the files are written from
NodeChoices ==
  { Declarator(app, <<"e","x","p","r","e","s","s">>),
    Declarator(router, <<"R","o","u","t","e","r">>),
    ImportRouter,
    ExportStatement,
    CallStatement(app, <<"g","e","t">>, <<Literal(<<"/">>), Handler(<<"jsonTodos">>)>>),
    CallStatement(router, <<"p","o","s","t">>,
                  <<Literal(<<"/","t","o","d","o","s","/",":","i","d">>), Handler(<<"status201">>)>>),
    CallStatement(app, <<"g","e","t">>, <<Literal(<<"/">>), Handler(<<"status422">>)>>),
    CallStatement(app, <<"p","o","s","t">>, <<Literal(<<"/">>), Handler(<<"status201">>)>>),
    CallStatement(router, <<"p","o","s","t">>, <<Literal(<<"/","t","o","-","d","o","s","/",":","i","d">>), Handler(<<"status201">>)>>),
    CallStatement(app, <<"u","s","e">>, <<Literal(<<"*">>), Handler(<<"next">>)>>),
    CallStatement(app, <<"g","e","t">>, <<Literal(<<"*">>), Handler(<<"jsonTodos">>)>>),
    CallStatement(router, <<"g","e","t">>,
                  <<Literal(<<"/","f","i","l","e","s","/","*">>), Handler(<<"jsonTodos">>)>>) }

\* The most nodes a file has.
MaxNodes == 3

\* A file acorn rejects: parse throws
Unparsable == [valid |-> FALSE, nodes |-> <<>>]

Files ==
  {[valid |-> TRUE, nodes |-> ns] : ns \in SeqsUpTo(NodeChoices, MaxNodes)}
  \cup {Unparsable}

\* lines 650-652: the arguments after the script's name, and what
\* fs.existsSync answers for the input path; nothing on stderr, not exited
Process(args, exists) == [args |-> args, exists |-> exists, stderr |-> <<>>, exit |-> <<>>]

\* A run whose arguments name an existing file: node express-to-openapi.js app.js
Started == Process(<<"app.js">>, TRUE)

\* console.error, once for each line
ConsoleError(p, lines) == [p EXCEPT !.stderr = @ \o lines]

\* lines 599-600 (error.message is left out)
ParsingErrorLines ==
  <<"Error parsing file:", "Make sure your JavaScript file has valid syntax">>

InitOn(files) ==
  /\ pc = "parse"
  /\ file \in files
  /\ appName = NULL
  /\ routerName = NULL
  /\ visited = 0
  /\ routes = <<>>
  /\ doc = NULL
  /\ written = <<>>
  /\ process = Started
  /\ handlerFunction = NULL
  /\ shape = NULL
  /\ handlerCode = <<>>
  /\ analysis = EmptyAnalysis

Init == InitOn(Files)

analyzerVars == <<handlerFunction, shape, handlerCode, analysis>>

\* lines 14-21: the file parses
Parse ==
  /\ pc = "parse"
  /\ file.valid
  /\ pc' = "walk"
  /\ UNCHANGED <<file, appName, routerName, visited, routes, doc, written, process, analyzerVars>>

\* lines 14, 598-603: parse throws, the error is logged, routes is returned
ParseError ==
  /\ pc = "parse"
  /\ ~file.valid
  /\ pc' = "returned"
  /\ process' = ConsoleError(process, ParsingErrorLines)
  /\ UNCHANGED <<file, appName, routerName, visited, routes, doc, written, analyzerVars>>

\* The node walk.simple hands over next
node == file.nodes[visited + 1]

\* A statement nested deeper than the call stack lets walk.simple descend
TooDeep(n) == "deep" \in DOMAIN n

Visit(type) ==
  /\ pc = "walk"
  /\ visited < Len(file.nodes)
  /\ ~TooDeep(node)
  /\ node.type = type
  /\ visited' = visited + 1

\* lines 502-518
VariableDeclarator ==
  /\ Visit("VariableDeclarator")
  /\ appName' = DeclaredApp(node, appName)
  /\ routerName' = DeclaredRouter(node, routerName)
  /\ UNCHANGED <<routes, pc, file, doc, written, process, analyzerVars>>

\* lines 521-532: nothing is assigned
ImportDeclaration ==
  /\ Visit("ImportDeclaration")
  /\ UNCHANGED <<appName, routerName, routes, pc, file, doc, written, process, analyzerVars>>

\* lines 535-596
ExpressionStatement ==
  /\ Visit("ExpressionStatement")
  /\ routes' = ExpressionStatementRoutes(node, appName, routerName, routes)
  /\ UNCHANGED <<appName, routerName, pc, file, doc, written, process, analyzerVars>>

\* line 603, after the walk
Return ==
  /\ pc = "walk"
  /\ visited = Len(file.nodes)
  /\ pc' = "returned"
  /\ UNCHANGED <<file, appName, routerName, visited, routes, doc, written, process, analyzerVars>>

\* Number.prototype.toString of a natural number
RECURSIVE NumberToString(_)
NumberToString(n) ==
  IF n < 10 THEN <<"0", "1", "2", "3", "4", "5", "6", "7", "8", "9">>[n + 1]
  ELSE NumberToString(n \div 10) \o NumberToString(n % 10)

\* The property keys that are array indices ("0", "1", ..., written without a
\* leading zero), up to three digits
ArrayIndexKeys == [n \in 0..999 |-> NumberToString(n)]

\* The own property keys of an object whose keys are status codes, in the
\* order JSON.stringify and yaml.dump go through them: keys that are array
\* indices come in ascending numeric order, whatever the order of their
\* insertion.  (A code written with a leading zero or with more than three
\* digits would follow them in insertion order; no handler here has one.)
OwnPropertyKeysDescending(obj) ==
  LET indices == {n \in DOMAIN ArrayIndexKeys : ArrayIndexKeys[n] \in DOMAIN obj}
  IN [i \in 1..Cardinality(indices) |->
        ArrayIndexKeys[Ascending(indices)[Cardinality(indices) + 1 - i]]]

OwnPropertyKeys(obj) ==
  LET indices == {n \in DOMAIN ArrayIndexKeys : ArrayIndexKeys[n] \in DOMAIN obj}
  IN [i \in 1..Cardinality(indices) |-> ArrayIndexKeys[Ascending(indices)[i]]]

\* lines 684-697: what fs.writeFileSync is given: the document, with the keys
\* of paths and of each path in the order the loop of generateOpenAPISpec
\* has inserted them, and the keys of the responses of each operation in
\* the order they are serialized in (the formatting is not modelled)
OutputFile(rs, openAPISpec) ==
  [document |-> openAPISpec,
   paths |-> InsertionOrder([i \in 1..Len(rs) |-> rs[i].path]),
   operations |-> InsertionOrder([i \in 1..Len(rs) |-> <<rs[i].path, rs[i].method>>]),
   responses |-> [path \in DOMAIN openAPISpec.paths |->
                    [method \in DOMAIN openAPISpec.paths[path] |->
                       OwnPropertyKeys(openAPISpec.paths[path][method].responses)]]]

\* lines 679-697: const openAPISpec = generateOpenAPISpec(routes); fs.writeFileSync
Generate ==
  /\ pc = "returned"
  /\ doc' = generateOpenAPISpec(routes)
  /\ written' = Append(written, OutputFile(routes, doc'))
  /\ pc' = "generated"
  /\ UNCHANGED <<file, appName, routerName, visited, routes, process, analyzerVars>>

Next ==
  \/ Parse
  \/ ParseError
  \/ VariableDeclarator
  \/ ImportDeclaration
  \/ ExpressionStatement
  \/ Return
  \/ Generate

Spec == Init /\ [][Next]_vars

(***************************************************************************)
(* SpecPaths: the same run on the files that bind a router and register    *)
(* one route on it, the path literal being any string of path characters   *)
(* up to a length.                                                         *)
(***************************************************************************)
\* The most characters a path literal has.
MaxPathLen == 5

PathCh == {"/", ":", "a", "_", "-"}

PathLiterals == SeqsUpTo(PathCh, MaxPathLen)

\* import { Router } from 'express'; const router = Router();
\* router.get(<path>, listTodos);
RouterFile(path) ==
  [valid |-> TRUE,
   nodes |-> << ImportRouter, Declarator(router, <<"R","o","u","t","e","r">>),
                CallStatement(router, <<"g","e","t">>,
                              <<Literal(path), NamedHandler>>) >>]

InitPaths == InitOn({RouterFile(path) : path \in PathLiterals} \cup {Unparsable})

SpecPaths == InitPaths /\ [][Next]_vars

(***************************************************************************)
(* SpecNested: the same run on files whose statements may hold other       *)
(* statements: a registration written inside the handler of another one,   *)
(* and registrations written inside a function declaration.  A statement   *)
(* has the source positions start and end of the acorn node.  walk.simple  *)
(* (line 500) calls the visitor of a node after it has walked the node's   *)
(* children.                                                               *)
(***************************************************************************)
Positioned(n, start, end) == [start |-> start, end |-> end] @@ n

\* A function expression with the statements of its body
FunctionNode(text, body) ==
  [type |-> "ArrowFunctionExpression", text |-> text, body |-> body]

NestedIds == {"import", "plain", "outer", "setup", "deep"}

\* The statement of that kind written at source position pos
NestedStatement(id, pos) ==
  CASE id = "import" -> Positioned(ImportRouter, pos, pos + 1)
    [] id = "plain" ->
       \* app.get('/plain', listTodos);
       Positioned(CallStatement(app, <<"g","e","t">>, <<Literal(<<"/","p","l","a","i","n">>), NamedHandler>>),
                  pos, pos + 1)
    [] id = "outer" ->
       \* app.get('/outer', (req, res) => { app.get('/inner', listTodos); });
       Positioned(
         CallStatement(app, <<"g","e","t">>,
           <<Literal(<<"/","o","u","t","e","r">>),
             FunctionNode(<<"(","r","e","q",","," ","r","e","s",")"," ","=",">"," ","{"," ","a","p","p",".","g","e","t","(","'","/","i","n","n","e","r","'",","," ","l","i","s","t","T","o","d","o","s",")",";"," ","}">>,
               << Positioned(CallStatement(app, <<"g","e","t">>,
                                           <<Literal(<<"/","i","n","n","e","r">>), NamedHandler>>),
                             pos + 1, pos + 2) >>)>>),
         pos, pos + 3)
    [] id = "deep" ->
       \* a.b.c.d. (and so on) .z; a member chain that acorn parses in a loop and
       \* walk.simple descends by recursion, deeper than the call stack allows
       Positioned([type |-> "ExpressionStatement",
                   expression |-> [type |-> "MemberExpression"], deep |-> TRUE],
                  pos, pos + 1)
    [] id = "setup" ->
       \* function setup() { app.get('/first', listTodos); app.post('/second', listTodos); }
       [type |-> "FunctionDeclaration",
        body |-> << Positioned(CallStatement(app, <<"g","e","t">>,
                                             <<Literal(<<"/","f","i","r","s","t">>), NamedHandler>>),
                               pos + 1, pos + 2),
                    Positioned(CallStatement(app, <<"p","o","s","t">>,
                                             <<Literal(<<"/","s","e","c","o","n","d">>), NamedHandler>>),
                               pos + 3, pos + 4) >>,
        start |-> pos, end |-> pos + 5]

\* The statements written inside a statement
Children(n) ==
  IF n.type = "FunctionDeclaration" THEN n.body
  ELSE IF n.type = "ExpressionStatement" /\ n.expression.type = "CallExpression"
  THEN Flatten([i \in 1..Len(n.expression.arguments) |->
                  IF "body" \in DOMAIN n.expression.arguments[i]
                  THEN n.expression.arguments[i].body ELSE <<>>])
  ELSE <<>>

\* The node types walk.simple is given a visitor for (lines 502, 521, 535)
VisitorTypes == {"VariableDeclarator", "ImportDeclaration", "ExpressionStatement"}

\* The visitor of a node called before those of its children
RECURSIVE SimpleWalkPreOrder(_)
SimpleWalkPreOrder(nodes) ==
  IF nodes = <<>> THEN <<>>
  ELSE (IF Head(nodes).type \in VisitorTypes THEN <<Head(nodes)>> ELSE <<>>)
       \o SimpleWalkPreOrder(Children(Head(nodes)))
       \o SimpleWalkPreOrder(Tail(nodes))

\* walk.simple: the nodes in the order their visitors are called
RECURSIVE SimpleWalk(_)
SimpleWalk(nodes) ==
  IF nodes = <<>> THEN <<>>
  ELSE SimpleWalk(Children(Head(nodes)))
       \o (IF Head(nodes).type \in VisitorTypes THEN <<Head(nodes)>> ELSE <<>>)
       \o SimpleWalk(Tail(nodes))

\* const app = express(); and then the statements of those kinds
NestedSource(ids) ==
  <<Positioned(Declarator(app, <<"e","x","p","r","e","s","s">>), 0, 1)>>
  \o [k \in 1..Len(ids) |-> NestedStatement(ids[k], 6 * k)]

NestedFiles ==
  {[valid |-> TRUE, source |-> NestedSource(ids), nodes |-> SimpleWalk(NestedSource(ids))] :
     ids \in SeqsUpTo(NestedIds, MaxNodes)}
  \cup {Unparsable}

InitNested == InitOn(NestedFiles)

\* The routes emptied by the error handler
WalkErrorEmptied ==
  /\ pc = "walk"
  /\ visited < Len(file.nodes)
  /\ TooDeep(node)
  /\ routes' = <<>>
  /\ pc' = "returned"
  /\ process' = ConsoleError(process, ParsingErrorLines)
  /\ UNCHANGED <<file, appName, routerName, visited, doc, written, analyzerVars>>

\* lines 500, 598-603: walk.simple throws (RangeError: Maximum call stack size
\* exceeded) before the visitor of the statement is called; the error is
\* logged and routes is returned
WalkError ==
  /\ pc = "walk"
  /\ visited < Len(file.nodes)
  /\ TooDeep(node)
  /\ pc' = "returned"
  /\ process' = ConsoleError(process, ParsingErrorLines)
  /\ UNCHANGED <<file, appName, routerName, visited, routes, doc, written, analyzerVars>>

NextNested ==
  \/ Next
  \/ WalkError

SpecNested == InitNested /\ [][NextNested]_vars

(***************************************************************************)
(* SpecRerun: main run again on the same file.  Every run declares routes, *)
(* appName and routerName anew (lines 11, 20, 21), and analyzeRouteHandler *)
(* evaluates its regular expression literals anew at every call.           *)
(***************************************************************************)
\* The most runs on a file.
MaxRuns == 2

RerunNodes ==
  { Declarator(app, <<"e","x","p","r","e","s","s">>),
    Declarator(router, <<"R","o","u","t","e","r">>),
    ImportRouter,
    CallStatement(app, <<"g","e","t">>, <<Literal(<<"/">>), Handler(<<"jsonTodos">>)>>),
    CallStatement(router, <<"p","o","s","t">>, <<Literal(<<"/","t","o","d","o","s","/",":","i","d">>), Handler(<<"status201">>)>>) }

RerunFiles ==
  {[valid |-> TRUE, nodes |-> ns] : ns \in SeqsUpTo(RerunNodes, MaxNodes)}
  \cup {Unparsable}

InitRerun == InitOn(RerunFiles)

\* appName and routerName kept from the run before
RerunKeepingNames ==
  /\ pc = "generated"
  /\ Len(written) < MaxRuns
  /\ pc' = "parse"
  /\ routes' = <<>>
  /\ visited' = 0
  /\ doc' = NULL
  /\ process' = Process(process.args, process.exists)
  /\ UNCHANGED <<file, appName, routerName, written, analyzerVars>>

\* lines 10-21, 649-679: main once more on the same content
Rerun ==
  /\ pc = "generated"
  /\ Len(written) < MaxRuns
  /\ pc' = "parse"
  /\ routes' = <<>>
  /\ appName' = NULL
  /\ routerName' = NULL
  /\ visited' = 0
  /\ doc' = NULL
  /\ process' = Process(process.args, process.exists)
  /\ UNCHANGED <<file, written, analyzerVars>>

NextRerun ==
  \/ Next
  \/ Rerun

SpecRerun == InitRerun /\ [][NextRerun]_vars

(***************************************************************************)
(* SpecMain: main from its first line (lines 649-697): the checks of the   *)
(* arguments and of the input path, each ending the process with           *)
(* process.exit(1), and after them the run of Spec.                        *)
(***************************************************************************)
\* process.argv.slice(2)
MainArgs ==
  { <<>>, <<"">>, <<"", "xml">>, <<"app.js">>, <<"app.js", "">>, <<"app.js", "json">>,
    <<"app.js", "yaml">>, <<"app.js", "yml">>, <<"app.js", "JSON">> }

\* line 654: !filePath, for args[0] undefined or empty
NoFilePath(args) == IF Len(args) = 0 THEN TRUE ELSE args[1] = ""

\* line 652: const outputFormat = args[1] || "json"
outputFormat(args) == IF Len(args) >= 2 /\ args[2] # "" THEN args[2] ELSE "json"

\* The content at the input path, read only when the path exists
MainFiles == RerunFiles

InitMain ==
  /\ pc = "main"
  /\ file \in MainFiles
  /\ process \in {Process(args, exists) : args \in MainArgs, exists \in BOOLEAN}
  /\ appName = NULL
  /\ routerName = NULL
  /\ visited = 0
  /\ routes = <<>>
  /\ doc = NULL
  /\ written = <<>>
  /\ handlerFunction = NULL
  /\ shape = NULL
  /\ handlerCode = <<>>
  /\ analysis = EmptyAnalysis

\* process.exit(1) after the lines given to console.error
Exit(lines) ==
  /\ process' = [ConsoleError(process, lines) EXCEPT !.exit = <<1>>]
  /\ pc' = "exited"
  /\ UNCHANGED <<file, appName, routerName, visited, routes, doc, written, analyzerVars>>

\* lines 654-661
MissingFilePath ==
  /\ pc = "main"
  /\ NoFilePath(process.args)
  /\ Exit(<<"Please provide a path to your Express.js app file",
            "Usage: express-to-openapi <path-to-app.js> [json|yaml]",
            "\nInstallation methods:",
            "  Global:  npm install -g express-to-openapi",
            "  One-time: npx express-to-openapi <app.js> [json|yaml]">>)

\* The format left unchecked: the run goes on to read the file
InvalidFormatIgnored ==
  /\ pc = "main"
  /\ ~NoFilePath(process.args)
  /\ outputFormat(process.args) \notin {"json", "yaml"}
  /\ process.exists
  /\ pc' = "parse"
  /\ UNCHANGED <<file, appName, routerName, visited, routes, doc, written, process, analyzerVars>>

\* lines 663-666
InvalidFormat ==
  /\ pc = "main"
  /\ ~NoFilePath(process.args)
  /\ outputFormat(process.args) \notin {"json", "yaml"}
  /\ Exit(<<"Output format must be 'json' or 'yaml'">>)

\* lines 668-673
FileNotFound ==
  /\ pc = "main"
  /\ ~NoFilePath(process.args)
  /\ outputFormat(process.args) \in {"json", "yaml"}
  /\ ~process.exists
  /\ Exit(<<"File not found: " \o process.args[1]>>)

\* lines 675-677: the content is read and handed to extractRoutesFromExpressApp
ReadFile ==
  /\ pc = "main"
  /\ ~NoFilePath(process.args)
  /\ outputFormat(process.args) \in {"json", "yaml"}
  /\ process.exists
  /\ pc' = "parse"
  /\ UNCHANGED <<file, appName, routerName, visited, routes, doc, written, process, analyzerVars>>

NextMain ==
  \/ MissingFilePath
  \/ InvalidFormat
  \/ FileNotFound
  \/ ReadFile
  \/ Next

SpecMain == InitMain /\ [][NextMain]_vars

(***************************************************************************)
(* SpecRegistrations: files of declarations and of statements of every     *)
(* kind the ExpressionStatement visitor tells apart (lines 535-574), each  *)
(* with a path of its own and the handler listTodos.                       *)
(***************************************************************************)
api == <<"a","p","i">>

RegistrationNodes ==
  { \* const app = express(); const api = express(); const router = Router();
    Declarator(app, <<"e","x","p","r","e","s","s">>),
    Declarator(api, <<"e","x","p","r","e","s","s">>),
    Declarator(router, <<"R","o","u","t","e","r">>),
    \* app.get('/a', listTodos); api.post('/b', listTodos); router.DELETE('/c', listTodos);
    CallStatement(app, <<"g","e","t">>, <<Literal(<<"/","a">>), NamedHandler>>),
    CallStatement(api, <<"p","o","s","t">>, <<Literal(<<"/","b">>), NamedHandler>>),
    CallStatement(router, <<"D","E","L","E","T","E">>, <<Literal(<<"/","c">>), NamedHandler>>),
    \* app.use('/d', listTodos); app.all('/e', listTodos);
    CallStatement(app, <<"u","s","e">>, <<Literal(<<"/","d">>), NamedHandler>>),
    CallStatement(app, <<"a","l","l">>, <<Literal(<<"/","e">>), NamedHandler>>),
    \* app.get('/f'); app.get(`/g`, listTodos); app.get(path, listTodos);
    CallStatement(app, <<"g","e","t">>, <<Literal(<<"/","f">>)>>),
    CallStatement(app, <<"g","e","t">>, <<TemplateLiteral(<<"/","g">>), NamedHandler>>),
    CallStatement(app, <<"g","e","t">>, <<Identifier(<<"p","a","t","h">>), NamedHandler>>),
    \* server.get('/h', listTodos); app[get]('/i', listTodos); router.put('/j*', listTodos);
    CallStatement(<<"s","e","r","v","e","r">>, <<"g","e","t">>, <<Literal(<<"/","h">>), NamedHandler>>),
    ComputedCallStatement(app, <<"g","e","t">>, <<Literal(<<"/","i">>), NamedHandler>>),
    CallStatement(router, <<"p","u","t">>, <<Literal(<<"/","j","*">>), NamedHandler>>) }

RegistrationFiles ==
  {[valid |-> TRUE, nodes |-> ns] : ns \in SeqsUpTo(RegistrationNodes, MaxNodes) \ {<<>>}}

InitRegistrations == InitOn(RegistrationFiles)

\* the visitors that have a node to visit in these files
NextRegistrations ==
  \/ Parse
  \/ VariableDeclarator
  \/ ExpressionStatement
  \/ Return
  \/ Generate

SpecRegistrations == InitRegistrations /\ [][NextRegistrations]_vars


(***************************************************************************)
(* SpecResponses: main on a file with one registration whose handler is    *)
(* written from response calls with different status codes.                *)
(***************************************************************************)
\* if (!updatedTodo) { return res.status(404).json({ message: 'Todo not found' }); }
\* res.json(todos); res.status(201).json(newTodo);
\* res.status(400).json({ message: err.message }); res.status(422).send();
StatusStatements == {"guard404", "jsonTodos", "status201", "status400", "status422"}

\* import { Router } from 'express'; const router = Router();
\* router.get('/', async (req, res) => { <statements> });
ResponsesFile(statements) ==
  [valid |-> TRUE,
   nodes |-> << ImportRouter, Declarator(router, <<"R","o","u","t","e","r">>),
                CallStatement(router, <<"g","e","t">>,
                              <<Literal(<<"/">>), Handler(statements)>>) >>]

InitResponses ==
  InitOn({ResponsesFile(statements) : statements \in SeqsUpTo(StatusStatements, MaxStatements)}
         \cup {Unparsable})

SpecResponses == InitResponses /\ [][Next]_vars

(***************************************************************************)
(* SpecQuery: one registration app.get(<path>, <handler>) on a bound app,  *)
(* handed to the ExpressionStatement visitor of either collector: that of  *)
(* src/src/express-to-openapi.js or that of src/unnamed/part_002.          *)
(***************************************************************************)
QueryShapes ==
  {Shape(<<"g","e","t">>, path, "ArrowFunctionExpression", pre, <<>>, <<>>, FALSE, LineEach) :
     pre \in SeqsUpTo(ParameterStatements, MaxStatements) \ {<<>>},
     path \in {<<"/","s","e","a","r","c","h">>, <<"/","u","s","e","r","s","/",":","u","s","e","r","I","d">>, <<"/",":","i","d","/",":","p","o","s","t","_","i","d","/",":","i","d","e","a">>}}

InitQuery ==
  /\ pc = "walk"
  /\ shape \in QueryShapes
  /\ handlerFunction = HandlerNode(shape)
  /\ file = [valid |-> TRUE,
             nodes |-> << CallStatement(app, shape.method,
                                        <<Literal(shape.path), handlerFunction>>) >>]
  /\ appName = app
  /\ routerName = NULL
  /\ visited = 0
  /\ routes = <<>>
  /\ doc = NULL
  /\ written = <<>>
  /\ process = Started
  /\ handlerCode = <<>>
  /\ analysis = EmptyAnalysis

\* part_002 lines 209-310
Part002ExpressionStatement ==
  /\ pc = "walk"
  /\ visited < Len(file.nodes)
  /\ node.type = "ExpressionStatement"
  /\ routes' = Part002ExpressionStatementRoutes(node, appName, routes)
  /\ visited' = visited + 1
  /\ pc' = "part_002"
  /\ UNCHANGED <<file, appName, routerName, doc, written, process, analyzerVars>>

NextQuery ==
  \/ ExpressionStatement
  \/ Part002ExpressionStatement

SpecQuery == InitQuery /\ [][NextQuery]_vars

(***************************************************************************)
(* SpecAnalyze: the ExpressionStatement visitor on one accepted call       *)
(* router.<method>(<path>, <handler>), with analyzeRouteHandler taken one  *)
(* block at a time (lines 24-340) and the route pushed at the end (lines   *)
(* 576-591).                                                               *)
(***************************************************************************)
collectorVars == <<file, appName, routerName, visited, doc, written, process>>

InitAnalyzeOn(shapes) ==
  /\ pc = "begin"
  /\ shape \in shapes
  /\ handlerFunction = HandlerNode(shape)
  /\ handlerCode = <<>>
  /\ analysis = EmptyAnalysis
  /\ routes = <<>>
  /\ appName = NULL
  /\ routerName = <<"r","o","u","t","e","r">>
  /\ visited = 0
  /\ file = [valid |-> TRUE, nodes |-> <<CallStatement(routerName, shape.method, <<Literal(shape.path), handlerFunction>>)>>]
  /\ doc = NULL
  /\ written = <<>>
  /\ process = Started

InitAnalyze == InitAnalyzeOn(Shapes)

\* lines 25-42
Begin ==
  /\ pc = "begin"
  /\ handlerCode' = HandlerCodeOf(handlerFunction)
  /\ pc' = "queryParameters"
  /\ UNCHANGED <<collectorVars, routes, handlerFunction, shape, analysis>>

Block(at, next, after) ==
  /\ pc = at
  /\ analysis' = after
  /\ pc' = next
  /\ UNCHANGED <<collectorVars, routes, handlerFunction, shape, handlerCode>>

QueryParameters ==
  Block("queryParameters", "queryDestructuring",
        ExtractQueryParameters(analysis, handlerCode))
QueryDestructuring ==
  Block("queryDestructuring", "requestBody",
        ExtractQueryDestructuring(analysis, handlerCode))
RequestBodyAccess ==
  Block("requestBody", "bodyDestructuring", AnalyzeRequestBody(analysis, handlerCode))
BodyDestructuring ==
  Block("bodyDestructuring", "responses",
        ExtractBodyDestructuring(analysis, handlerCode))
Responses ==
  Block("responses", "errorResponses", AnalyzeResponses(analysis, handlerCode))
ErrorResponses ==
  Block("errorResponses", "notFound", AddErrorResponses(analysis, handlerCode))
NotFound ==
  Block("notFound", "successResponse", AddNotFound(analysis, handlerCode))
SuccessResponse ==
  Block("successResponse", "push", EnsureSuccessResponse(analysis))

\* lines 579-591
PushRoute ==
  /\ pc = "push"
  /\ routes' = Append(routes, Route(shape.path, shape.method, analysis))
  /\ pc' = "pushed"
  /\ UNCHANGED <<collectorVars, handlerFunction, shape, handlerCode, analysis>>

NextAnalyze ==
  \/ Begin
  \/ QueryParameters
  \/ QueryDestructuring
  \/ RequestBodyAccess
  \/ BodyDestructuring
  \/ Responses
  \/ ErrorResponses
  \/ NotFound
  \/ SuccessResponse
  \/ PushRoute

SpecAnalyze == InitAnalyze /\ [][NextAnalyze]_vars

(***************************************************************************)
(* SpecHandlers: analyzeRouteHandler as in SpecAnalyze, on handlers        *)
(* written from response calls of the six shapes of responsePatterns       *)
(* (lines 200-223) and on handlers that read one property of req.body, by  *)
(* member access, by destructuring or both.                                *)
(***************************************************************************)
\* res.json(todos); res.send(); res.json(); res.status(201).json(newTodo);
\* res.status(201).send(); res.status(201).json();
ResponseCallStatements ==
  {"jsonTodos", "send", "json", "status201", "status201send", "status201json"}

\* The property names read from req.body
BodyNames ==
  {"message", "page", "discount", "language", "completed", "active", "enabled",
   "age", "count", "price", "title", "name", "email", "videoPage"}

\* const <name> = req.body.<name>;
Access(name) == "body." \o name
\* const { <name> } = req.body;
Destructure(name) == "{" \o name \o "}"

HandlerShapes ==
  {Shape(<<"p","o","s","t">>, <<"/">>, "ArrowFunctionExpression", pre, <<>>, <<>>, FALSE, OneLine) :
     pre \in SeqsUpTo(ResponseCallStatements, MaxStatements)
             \cup {<<Access(name)>> : name \in BodyNames}
             \cup {<<Destructure(name)>> : name \in BodyNames}
             \cup {<<Access(name), Destructure(name)>> : name \in BodyNames}
             \cup {<<"guardAge">>, <<"guardAge", Destructure("title")>>,
                   <<Destructure("age"), "guardAge">>}}

InitHandlers == InitAnalyzeOn(HandlerShapes)

SpecHandlers == InitHandlers /\ [][NextAnalyze]_vars

(***************************************************************************)
(* What a handler is written from, read off its shape.                     *)
(***************************************************************************)
\* The status codes of the res.status(N) calls of the handler.
StatusCalls(sh) ==
  IF sh.type = "Identifier" THEN {}
  ELSE UNION {StatusCallsOf(StatementsOf(sh)[i]) : i \in 1..Len(StatementsOf(sh))}

\* The handler calls res.json or res.send without a status.
PlainResponse(sh) ==
  /\ sh.type # "Identifier"
  /\ \E i \in 1..Len(StatementsOf(sh)) : HasPlainResponse(StatementsOf(sh)[i])

\* The handler's text is one no response heuristic matches: no response
\* call, no try block, no lookup by id with a not-found branch.
NoHeuristicMatches(sh) ==
  \/ sh.type = "Identifier"
  \/ /\ StatusCalls(sh) = {}
     /\ ~PlainResponse(sh)
     /\ ~sh.hasTry
     /\ \A i \in 1..Len(StatementsOf(sh)) :
          StatementsOf(sh)[i] \notin {"findById", "findByIdAndUpdate", "nextNotFound"}

\* The route pushed for the handler.
Pushed == pc = "pushed"
route == routes[Len(routes)]

DefaultResponses == ("200" :> Response("Success", OpaqueObject))

(***************************************************************************)
(* C1: every emitted route has at least one response; when no heuristic    *)
(* matched, its responses are exactly "200" with description "Success" and *)
(* schema {type: "object"}.                                                *)
(***************************************************************************)
C1_ResponsesNonEmpty ==
  Pushed =>
    /\ DOMAIN route.responses # {}
    /\ NoHeuristicMatches(shape) => route.responses = DefaultResponses

\* A handler that only reads query parameters gets the default response.
C1_Witness ==
  /\ Pushed
  /\ NoHeuristicMatches(shape)
  /\ shape.pre = <<"queryQ">>
  /\ route.responses = DefaultResponses

(***************************************************************************)
(* C4: every status code of a route's responses is one the handler uses:   *)
(* the N of a res.status(N) call in its text, or "200" when the handler    *)
(* has a status-less res.json/res.send call or no response call at all.    *)
(* The code adds "500" for a try/catch whose catch block answers with      *)
(* another code or not at all, and "404" for a lookup by id beside the     *)
(* words "not found".                                                      *)
(***************************************************************************)
UsedCodes(sh) ==
  StatusCalls(sh)
  \cup (IF PlainResponse(sh) \/ StatusCalls(sh) = {} THEN {"200"} ELSE {})

C4_OnlyUsedCodes ==
  Pushed => DOMAIN route.responses \subseteq UsedCodes(shape)

(***************************************************************************)
(* C5: when every response call of the handler (of the six call shapes     *)
(* status(N).json(expr), json(expr), status(N).json(), json(),             *)
(* status(N).send(), send()) carries an explicit status other than 200,    *)
(* the route's responses contain each of those codes and not "200".        *)
(***************************************************************************)
C5_ExplicitStatusOnly ==
  (/\ Pushed
   /\ StatusCalls(shape) # {}
   /\ "200" \notin StatusCalls(shape)
   /\ ~PlainResponse(shape))
  => /\ StatusCalls(shape) \subseteq DOMAIN route.responses
     /\ "200" \notin DOMAIN route.responses

\* The README's POST handler: 201 and 400, no 200.
C5_Witness ==
  /\ Pushed
  /\ shape = ExamplePost(LineEach)
  /\ {"201", "400"} \subseteq DOMAIN route.responses
  /\ "200" \notin DOMAIN route.responses

(***************************************************************************)
(* C6: scenario A. router.get('/') with Todo.find() and res.json(todos) in *)
(* try and res.status(500).json({message: err.message}) in catch gives     *)
(* method get, path /, responses exactly "200" and "500"; "200" is an      *)
(* array of objects with _id: string and completed: boolean, "500" an      *)
(* object with the single property message: string.                        *)
(***************************************************************************)
C6_ScenarioA ==
  (Pushed /\ \E sep \in {OneLine, LineEach} : shape = ExampleGet(sep))
  => /\ route.method = <<"g","e","t">>
     /\ route.path = <<"/">>
     /\ DOMAIN route.responses = {"200", "500"}
     /\ LET ok == route.responses["200"].schema IN
        /\ ok.type = "array"
        /\ ok.items.type = "object"
        /\ {"_id", "completed"} \subseteq DOMAIN ok.items.properties
        /\ ok.items.properties["_id"] = [type |-> "string"]
        /\ ok.items.properties["completed"] = [type |-> "boolean"]
     /\ route.responses["500"].schema =
          [type |-> "object", properties |-> ("message" :> [type |-> "string"])]

C6_Witness ==
  /\ Pushed
  /\ shape = ExampleGet(OneLine)
  /\ DOMAIN route.responses = {"200", "500"}
  /\ route.responses["200"].schema.type = "array"

(***************************************************************************)
(* C7: scenario C. router.patch('/:id') with the guard                     *)
(* if (!updatedTodo) return res.status(404).json({message: 'Todo not       *)
(* found'}) gives the path parameter id (required, string) and a "404"     *)
(* response whose schema is an object with exactly message: string.  The   *)
(* code infers the schema of the "404" payload from the word Todo in it    *)
(* and gives it the Todo properties.                                       *)
(***************************************************************************)
C7_ScenarioC ==
  (Pushed /\ \E sep \in {OneLine, LineEach} : shape = ExamplePatch(sep))
  => /\ \E i \in 1..Len(route.parameters) :
          route.parameters[i] = [name |-> "id", in |-> "path", required |-> TRUE,
                                 schema |-> [type |-> "string"]]
     /\ "404" \in DOMAIN route.responses
     /\ route.responses["404"].schema =
          [type |-> "object", properties |-> ("message" :> [type |-> "string"])]

(***************************************************************************)
(* C8: a route has a "404" response if and only if the handler has a       *)
(* not-found guard issuing status(404); without a status(400) call it has  *)
(* no "400" response, whatever else its text holds.  The code registers    *)
(* "404" for findById beside the words "not found".                        *)
(***************************************************************************)
C8_NotFoundOnlyWithGuard ==
  Pushed =>
    /\ "404" \in DOMAIN route.responses <=> "404" \in StatusCalls(shape)
    /\ "400" \in DOMAIN route.responses => "400" \in StatusCalls(shape)

(***************************************************************************)
(* C9: a handler whose only query usage is const { q } = req.query has     *)
(* exactly one query parameter: name q, in query, required false, schema   *)
(* {type: "string"}.                                                       *)
(***************************************************************************)
QueryStatements(sh) ==
  IF sh.type = "Identifier" THEN <<>>
  ELSE SelectSeq(StatementsOf(sh), LAMBDA s : QueryNamesOf(s) # {})

QueryParametersOf(r) == SelectSeq(r.parameters, LAMBDA p : p.in = "query")

pathLiteral == file.nodes[Len(file.nodes)].expression.arguments[1].value

\* The walk is over and every node was visited.
Walked == pc = "returned" /\ file.valid /\ visited = Len(file.nodes)

RECURSIVE Join(_, _)
Join(parts, sep) ==
  IF Len(parts) = 0 THEN <<>>
  ELSE IF Len(parts) = 1 THEN parts[1]
  ELSE parts[1] \o sep \o Join(Tail(parts), sep)

\* name, in and required of the path parameters of a route, in order
PathParametersOf(r) ==
  LET ps == SelectSeq(r.parameters, LAMBDA p : p.in = "path") IN
  [i \in 1..Len(ps) |->
     [name |-> ps[i].name, in |-> ps[i].in, required |-> ps[i].required]]

PathParameters(names) ==
  [i \in 1..Len(names) |-> [name |-> Str(names[i]), in |-> "path", required |-> TRUE]]

\* A segment of the form :name
ParamSegment(seg) ==
  /\ Len(seg) >= 2
  /\ seg[1] = ":"
  /\ \A i \in 2..Len(seg) : seg[i] \in WordCh

\* The names of the :name segments of a path, in segment order
SegmentNames(path) ==
  LET segs == SelectSeq(Split(path, "/"), ParamSegment) IN
  [i \in 1..Len(segs) |-> Tail(segs[i])]

\* The path with each :name segment written {name}
SegmentsBraced(path) ==
  LET segs == Split(path, "/") IN
  Join([i \in 1..Len(segs) |->
          IF ParamSegment(segs[i]) THEN <<"{">> \o Tail(segs[i]) \o <<"}">>
          ELSE segs[i]],
       <<"/">>)

\* The positions of the colons that a word character follows
Colons(path) ==
  {i \in 1..(Len(path) - 1) : path[i] = ":" /\ path[i + 1] \in WordCh}

\* The last position of the run of word characters after the colon at i
NameEnd(path, i) ==
  MaxOf({j \in (i + 1)..Len(path) : \A k \in (i + 1)..j : path[k] \in WordCh})

\* The names after those colons, in path order
OccurrenceNames(path) ==
  LET at == Ascending(Colons(path)) IN
  [n \in 1..Len(at) |-> SubSeq(path, at[n] + 1, NameEnd(path, at[n]))]

\* The path from position i on with each such colon and name written {name}
RECURSIVE OccurrencesBraced(_, _)
OccurrencesBraced(path, i) ==
  IF i > Len(path) THEN <<>>
  ELSE IF i \in Colons(path)
  THEN <<"{">> \o SubSeq(path, i + 1, NameEnd(path, i)) \o <<"}">>
       \o OccurrencesBraced(path, NameEnd(path, i) + 1)
  ELSE <<path[i]>> \o OccurrencesBraced(path, i + 1)

(***************************************************************************)
(* C2 as stated: each segment of the form :name of an accepted path        *)
(* literal is emitted as {name}, with exactly one path parameter (in path, *)
(* required) per such segment, in segment order; a path without a :name    *)
(* segment is emitted unchanged and has no path parameter.  A colon and    *)
(* name inside a segment (a:_ or :a-:_) is rewritten as well.              *)
(***************************************************************************)
C2_ParamSegments ==
  Walked =>
    /\ Len(routes) = 1
    /\ route.path = SegmentsBraced(pathLiteral)
    /\ PathParametersOf(route) = PathParameters(SegmentNames(pathLiteral))

(***************************************************************************)
(* C2 amended: each colon followed by word characters, wherever it stands  *)
(* in the path literal, is emitted with its name as {name}, with exactly   *)
(* one path parameter (in path, required) per such occurrence, in path     *)
(* order; a path without such an occurrence is emitted unchanged and has   *)
(* no path parameter.                                                      *)
(***************************************************************************)
C2_ParamOccurrences ==
  Walked =>
    /\ Len(routes) = 1
    /\ route.path = OccurrencesBraced(pathLiteral, 1)
    /\ PathParametersOf(route) = PathParameters(OccurrenceNames(pathLiteral))

\* router.get(':a/:_', listTodos): two parameters, a before _
C2_Witness ==
  /\ Walked
  /\ pathLiteral = <<":","a","/",":","_">>
  /\ route.path = <<"{","a","}","/","{","_","}">>
  /\ Len(PathParametersOf(route)) = 2
  /\ PathParametersOf(route)[1].name = "a"
  /\ PathParametersOf(route)[2].name = "_"

(***************************************************************************)
(* C3: no route whose path literal is "*" or contains '*' is in the route  *)
(* list or among the keys of the document's paths, whatever the file; a    *)
(* registration app.use('*', handler) produces no route.                   *)
(***************************************************************************)
NoWildcard(path) == \A i \in 1..Len(path) : path[i] # "*"

\* The visited registrations whose path literal has no '*'
PlainRegistrations ==
  {i \in 1..visited :
     /\ file.nodes[i].type = "ExpressionStatement"
     /\ file.nodes[i].expression.type = "CallExpression"
     /\ NoWildcard(file.nodes[i].expression.arguments[1].value)}

C3_NoWildcardRoutes ==
  /\ \A i \in 1..Len(routes) : NoWildcard(routes[i].path)
  /\ Len(routes) <= Cardinality(PlainRegistrations)
  /\ doc # NULL => \A path \in DOMAIN doc.paths : NoWildcard(path)

\* const app = express(); app.use('*', ...); app.get('*', ...): no route, no path
C3_Witness ==
  /\ pc = "generated"
  /\ file.nodes =
       << Declarator(app, <<"e","x","p","r","e","s","s">>),
          CallStatement(app, <<"u","s","e">>, <<Literal(<<"*">>), Handler(<<"next">>)>>),
          CallStatement(app, <<"g","e","t">>, <<Literal(<<"*">>), Handler(<<"jsonTodos">>)>>) >>
  /\ routes = <<>>
  /\ DOMAIN doc.paths = {}

(***************************************************************************)
(* C10 as stated: a detected query parameter named q or query is emitted   *)
(* with required = true and every other one with required = false, found   *)
(* by member access or by destructuring.  The collector of                 *)
(* src/src/express-to-openapi.js emits every query parameter with          *)
(* required = false.                                                       *)
(***************************************************************************)
\* The names the handler reads from req.query
QueryNames(sh) ==
  UNION {QueryNamesOf(StatementsOf(sh)[i]) : i \in 1..Len(StatementsOf(sh))}

SearchNames == {"q", "query"}

\* The registration was visited and its route pushed.
Collected == visited = 1 /\ Len(routes) = 1

\* Each search name the handler reads is among the emitted query parameters.
SearchNamesDetected ==
  \A name \in QueryNames(shape) \cap SearchNames :
    \E i \in 1..Len(QueryParametersOf(route)) : QueryParametersOf(route)[i].name = name

SearchNamesRequired ==
  \A i \in 1..Len(QueryParametersOf(route)) :
    QueryParametersOf(route)[i].required
      <=> QueryParametersOf(route)[i].name \in SearchNames

NoneRequired ==
  \A i \in 1..Len(QueryParametersOf(route)) : ~QueryParametersOf(route)[i].required

PathParameterTypes(r) ==
  LET ps == SelectSeq(r.parameters, LAMBDA p : p.in = "path") IN
  [i \in 1..Len(ps) |-> ps[i].schema.type]

\* The types the names get when the names in integerNames are integers
TypesOf(names, integerNames(_)) ==
  [i \in 1..Len(names) |-> IF integerNames(names[i]) THEN "integer" ELSE "string"]

IdName(name) == name = <<"i","d">> \/ EndsWith(name, <<"I","d">>)

IdOrUnderscoreIdName(name) == IdName(name) \/ EndsWith(name, <<"_","i","d">>)

NoName(name) == FALSE

BodyDestructurings(sh) ==
  IF sh.type = "Identifier" THEN <<>>
  ELSE SelectSeq(StatementsOf(sh), LAMBDA s : BodyDestructuredOf(s) # <<>>)

\* The statements of the handler that read req.body.<name>, in text order
BodyAccesses(sh) ==
  IF sh.type = "Identifier" THEN <<>>
  ELSE SelectSeq(StatementsOf(sh), LAMBDA s : BodyAccessedOf(s) # <<>>)

Names(seq) == {seq[i] : i \in 1..Len(seq)}

\* The requestBody of r has the property completed, of type boolean.
CompletedIsBoolean(r) ==
  /\ r.requestBody # NULL
  /\ "completed" \in DOMAIN r.requestBody.schema.properties
  /\ r.requestBody.schema.properties["completed"] = [type |-> "boolean"]

NameType(name) ==
  CASE name = "completed" -> "boolean"
    [] name = "age" -> "integer"
    [] OTHER -> "string"

\* The requestBody whose schema has the properties names
BodyOf(names) ==
  LET properties == [name \in Names(names) |-> [type |-> NameType(name)]]
      required == SelectSeq(names, LAMBDA name : name \in {"title", "name", "email"})
  IN [required |-> TRUE,
      schema |-> IF required = <<>>
                 THEN [type |-> "object", properties |-> properties]
                 ELSE [type |-> "object", properties |-> properties,
                       required |-> required]]

\* The requestBody of the member accesses req.body.<name> of the handler
AccessBody(sh) ==
  IF BodyAccesses(sh) = <<>> THEN NULL
  ELSE BodyOf(InsertionOrder(Flatten([i \in 1..Len(BodyAccesses(sh)) |->
                                        BodyAccessedOf(BodyAccesses(sh)[i])])))

\* The requestBody of the n-th destructuring of req.body of the handler
DestructuringBody(sh, n) == BodyOf(BodyDestructuredOf(BodyDestructurings(sh)[n]))

EntriesKept ==
  \A statusCode \in DOMAIN analysis.responses :
    /\ statusCode \in DOMAIN analysis'.responses
    /\ analysis'.responses[statusCode] = analysis.responses[statusCode]

C14_InsertIfAbsent == [][EntriesKept]_vars

\* The README's PATCH handler after the not-found detection: "404" is still
\* the entry of res.status(404).json(...), and "400" that of the catch block.
C14_Witness ==
  /\ pc = "successResponse"
  /\ shape = ExamplePatch(OneLine)
  /\ DOMAIN analysis.responses = {"200", "400", "404", "500"}
  /\ analysis.responses["404"].description = getResponseDescription("404")
  /\ analysis.responses["404"] # MessageResponse("Resource not found")

(***************************************************************************)
(* C15 as stated: for every emitted route and every accepted path literal, *)
(* the emitted path never contains the parameter sigil ':'; all parameters *)
(* appear only as {name} placeholders.  A colon that no word character     *)
(* follows, as in /: or :a::a, is not a match of /:([a-zA-Z0-9_]+)/g and   *)
(* stays in the emitted path.                                              *)
(***************************************************************************)
\* The positions of the colons of a path
ColonsIn(path) == {i \in 1..Len(path) : path[i] = ":"}

C15_NoColon ==
  \A i \in 1..Len(routes) : ColonsIn(routes[i].path) = {}

(***************************************************************************)
(* C15 amended: in the emitted path no colon is followed by a word         *)
(* character: every colon of the path literal that a word character        *)
(* follows is rewritten with its name as {name}, and the colons that stay  *)
(* are exactly those of the literal that no word character follows.        *)
(***************************************************************************)
C15_NoParameterColon ==
  Walked =>
    /\ Len(routes) = 1
    /\ Colons(route.path) = {}
    /\ Cardinality(ColonsIn(route.path))
         = Cardinality(ColonsIn(pathLiteral) \ Colons(pathLiteral))

\* router.get(':a::a', listTodos) is emitted as {a}:{a}
C15_Witness ==
  /\ Walked
  /\ pathLiteral = <<":","a",":",":","a">>
  /\ route.path = <<"{","a","}",":","{","a","}">>

(***************************************************************************)
(* The operations of a document.                                           *)
(***************************************************************************)
Generated == pc = "generated"

\* The (path, method) pairs of the operations of a document
Operations(d) ==
  UNION {{<<path, method>> : method \in DOMAIN d.paths[path]} : path \in DOMAIN d.paths}

\* The (path, method) pair of a route
Pair(r) == <<r.path, r.method>>

\* The last route of the list with the pair of the i-th
LastOf(i) == MaxOf({j \in 1..Len(routes) : Pair(routes[j]) = Pair(routes[i])})

(***************************************************************************)
(* C16 as stated: the route list has at most one Route per (normalized     *)
(* path, method) pair, so that no operation is overwritten in              *)
(* generateOpenAPISpec and the document has as many operations as the list *)
(* has routes.  The collector pushes a route for every accepted            *)
(* registration, also for a path and method registered before.             *)
(***************************************************************************)
C16_OneRoutePerPair ==
  /\ \A i, j \in 1..Len(routes) : Pair(routes[i]) = Pair(routes[j]) => i = j
  /\ Generated => Cardinality(Operations(doc)) = Len(routes)

(***************************************************************************)
(* C16 amended: the route list has one Route per accepted registration,    *)
(* and so may hold several routes of one (path, method) pair.  In          *)
(* generateOpenAPISpec all routes sharing a path land under one paths      *)
(* entry with one sub-entry per method; the operation of a pair is that of *)
(* the last route of the pair, and the document has as many operations as  *)
(* the list has distinct pairs.                                            *)
(***************************************************************************)
C16_LastRoutePerPair ==
  Generated =>
    /\ Operations(doc) = {Pair(routes[i]) : i \in 1..Len(routes)}
    /\ \A i \in 1..Len(routes) :
         doc.paths[routes[i].path][routes[i].method].responses
           = routes[LastOf(i)].responses

\* const app = express(); app.get('/', a); app.get('/', b): two routes and
\* the one operation get under the one path /, that of the second route
C16_Witness ==
  /\ Generated
  /\ Len(routes) = 2
  /\ DOMAIN doc.paths = {<<"/">>}
  /\ DOMAIN doc.paths[<<"/">>] = {<<"g","e","t">>}
  /\ routes[1].responses # routes[2].responses
  /\ doc.paths[<<"/">>][<<"g","e","t">>].responses = routes[2].responses

(***************************************************************************)
(* C17: every operation of the document has a non-empty operationId: the   *)
(* lower-cased method followed by the path with every character outside    *)
(* [a-zA-Z0-9] removed.  Operations of distinct routes whose operationIds  *)
(* collide keep them as they are, without suffix.                          *)
(***************************************************************************)
\* The characters of a text that are letters or digits, in order
RECURSIVE Alphanumerics(_)
Alphanumerics(text) ==
  IF text = <<>> THEN <<>>
  ELSE (IF Head(text) \in LowerCh \cup UpperCh \cup DigitCh THEN <<Head(text)>> ELSE <<>>)
       \o Alphanumerics(Tail(text))

C17_OperationId ==
  Generated =>
    \A o \in Operations(doc) :
      /\ doc.paths[o[1]][o[2]].operationId # <<>>
      /\ doc.paths[o[1]][o[2]].operationId = toLowerCase(o[2]) \o Alphanumerics(o[1])

\* router.post('/todos/:id', a); router.post('/to-dos/:id', b): two
\* operations, both with the operationId posttodosid
C17_Witness ==
  /\ Generated
  /\ DOMAIN doc.paths = {<<"/","t","o","d","o","s","/","{","i","d","}">>, <<"/","t","o","-","d","o","s","/","{","i","d","}">>}
  /\ doc.paths[<<"/","t","o","d","o","s","/","{","i","d","}">>][<<"p","o","s","t">>].operationId = <<"p","o","s","t","t","o","d","o","s","i","d">>
  /\ doc.paths[<<"/","t","o","-","d","o","s","/","{","i","d","}">>][<<"p","o","s","t">>].operationId = <<"p","o","s","t","t","o","d","o","s","i","d">>

(***************************************************************************)
(* Registrations, read off the source of a file.                           *)
(***************************************************************************)
\* The statements of a source, those written inside others included
RECURSIVE AllStatements(_)
AllStatements(nodes) ==
  IF nodes = <<>> THEN {}
  ELSE {Head(nodes)} \cup AllStatements(Children(Head(nodes)))
       \cup AllStatements(Tail(nodes))

\* The registrations app.<method>(<path>, <handler>) of the file; app is
\* bound by the first statement, so each of them is accepted.
Registrations ==
  {n \in AllStatements(file.source) :
     n.type = "ExpressionStatement" /\ n.expression.type = "CallExpression"}

\* The path literals of the registrations in ascending order of the position
\* of their start, or of their end
Position(n, edge) == IF edge = "start" THEN n.start ELSE n.end

RECURSIVE PathsByPosition(_, _)
PathsByPosition(S, edge) ==
  IF S = {} THEN <<>>
  ELSE LET n == CHOOSE m \in S : \A o \in S : Position(m, edge) <= Position(o, edge)
       IN <<n.expression.arguments[1].value>> \o PathsByPosition(S \ {n}, edge)

RoutePaths == [i \in 1..Len(routes) |-> routes[i].path]

(***************************************************************************)
(* C18 as stated: the collector emits exactly one Route per accepted call  *)
(* site, and the order of the route list is the order in which the         *)
(* accepted registration statements occur in the source text (ascending    *)
(* source position), registrations nested inside function bodies or blocks *)
(* included.  A registration written inside the handler of another one is  *)
(* visited, and its route pushed, before the enclosing one.                *)
(***************************************************************************)
C18_SourceOrder ==
  Walked => RoutePaths = PathsByPosition(Registrations, "start")

(***************************************************************************)
(* C18 amended: the collector emits exactly one Route per accepted call    *)
(* site, in the order in which walk.simple calls the visitor: ascending    *)
(* position of the end of the registration statements.  That is the order  *)
(* of the source text for registrations that do not contain one another,   *)
(* those inside function bodies or blocks included; a registration written *)
(* inside the handler of another one comes before it.                      *)
(***************************************************************************)
C18_VisitOrder ==
  Walked =>
    /\ Len(routes) = Cardinality(Registrations)
    /\ RoutePaths = PathsByPosition(Registrations, "end")

\* function setup() {...} and then app.get('/outer', ... app.get('/inner', ...) ...)
C18_Witness ==
  /\ Walked
  /\ Len(file.source) = 3
  /\ file.source[2].type = "FunctionDeclaration"
  /\ RoutePaths = <<<<"/","f","i","r","s","t">>, <<"/","s","e","c","o","n","d">>, <<"/","i","n","n","e","r">>, <<"/","o","u","t","e","r">>>>

Returned == pc \in {"returned", "generated"}

\* The error handler of lines 598-601 was entered.
Caught == Returned /\ (~file.valid \/ visited < Len(file.nodes))

\* The run on a file that does not parse goes on to write an empty document.
ParseErrorDegrades ==
  ~file.valid =>
    /\ pc \in {"parse", "returned", "generated"}
    /\ Returned => routes = <<>>
    /\ Generated =>
         /\ doc.paths = EmptyMap
         /\ Len(written) = 1
         /\ written[1].document = doc

C20_EmptyOnError ==
  /\ ParseErrorDegrades
  /\ Caught => routes = <<>>

(***************************************************************************)
(* C20 amended: if the source text cannot be parsed, the error is reported *)
(* and extractRoutesFromExpressApp returns an empty route sequence; the    *)
(* run does not abort, assembles a document with empty paths and writes    *)
(* the output file.  When the error handler is entered for an error thrown *)
(* during the walk, the returned route sequence holds the routes pushed    *)
(* before the error, and the document written has their paths.             *)
(***************************************************************************)
\* The path literals of the registrations among the nodes visited, in order
VisitedPaths ==
  LET registrations ==
        SelectSeq(SubSeq(file.nodes, 1, visited),
                  LAMBDA n : n.type = "ExpressionStatement"
                             /\ n.expression.type = "CallExpression")
  IN [i \in 1..Len(registrations) |-> registrations[i].expression.arguments[1].value]

C20_PartialOnWalkError ==
  /\ ParseErrorDegrades
  /\ (Caught /\ file.valid) =>
       /\ RoutePaths = VisitedPaths
       /\ Generated => DOMAIN doc.paths = Names(VisitedPaths)

\* A file acorn rejects: no route, and a document with empty paths written
C20_Witness ==
  /\ Generated
  /\ ~file.valid
  /\ routes = <<>>
  /\ doc.paths = EmptyMap
  /\ Len(written) = 1

(***************************************************************************)
(* C21: when no input path is given, when the format argument is neither   *)
(* json nor yaml, or when the input path does not exist, the process exits *)
(* with code 1 after a diagnostic on stderr, nothing is analysed and no    *)
(* output file is written; an output file is written only in runs where    *)
(* all three checks passed.                                                *)
(***************************************************************************)
InputError ==
  \/ NoFilePath(process.args)
  \/ outputFormat(process.args) \notin {"json", "yaml"}
  \/ ~process.exists

NothingAnalysed ==
  /\ visited = 0
  /\ appName = NULL
  /\ routerName = NULL
  /\ routes = <<>>
  /\ analysis = EmptyAnalysis
  /\ doc = NULL

C21_InputErrorsExit ==
  /\ InputError =>
       /\ pc \in {"main", "exited"}
       /\ NothingAnalysed
       /\ written = <<>>
       /\ pc = "exited" => process.exit = <<1>> /\ process.stderr # <<>>
  /\ ~InputError => pc # "exited" /\ process.exit = <<>>
  /\ written # <<>> => ~InputError

\* node express-to-openapi.js app.js yml, app.js being there
C21_Witness ==
  /\ pc = "exited"
  /\ process.args = <<"app.js", "yml">>
  /\ process.exists
  /\ process.exit = <<1>>
  /\ process.stderr = <<"Output format must be 'json' or 'yaml'">>
  /\ written = <<>>

(***************************************************************************)
(* What makes a statement a route registration, for the collector with the *)
(* application name a and the router name r.                               *)
(***************************************************************************)
HttpMethods ==
  {<<"g","e","t">>, <<"p","o","s","t">>, <<"p","u","t">>, <<"p","a","t","c","h">>, <<"d","e","l","e","t","e">>, <<"h","e","a","d">>, <<"o","p","t","i","o","n","s">>}

\* n is a call <object>.<property>(...) or <object>[<property>](...)
MemberCall(n) ==
  /\ n.type = "ExpressionStatement"
  /\ n.expression.type = "CallExpression"
  /\ n.expression.callee.type = "MemberExpression"

\* n is a call <object>.<property>(...)
DottedCall(n) == MemberCall(n) /\ ~n.expression.callee.computed

\* the object is the tracked application or router identifier
OnTracked(n, a, r) ==
  \/ a # NULL /\ n.expression.callee.object.name = a
  \/ r # NULL /\ n.expression.callee.object.name = r

\* an HTTP method in any case, two arguments or more, the first a string
\* literal without '*'
RegistersPath(n) ==
  /\ toLowerCase(n.expression.callee.property.name) \in HttpMethods
  /\ Len(n.expression.arguments) >= 2
  /\ n.expression.arguments[1].type = "Literal"
  /\ n.expression.arguments[1].typeof = "string"
  /\ NoWildcard(n.expression.arguments[1].value)

\* the visitor has pushed one Route, that of n
YieldsRoute(n) ==
  /\ Len(routes') = Len(routes) + 1
  /\ SubSeq(routes', 1, Len(routes)) = routes
  /\ routes'[Len(routes')].path = n.expression.arguments[1].value
  /\ routes'[Len(routes')].method = toLowerCase(n.expression.callee.property.name)

(***************************************************************************)
(* C22: a statement yields a Route if and only if it is a call             *)
(* <obj>.<method>(...) on the tracked application or router identifier,    *)
(* with <method> lower-cased one of get, post, put, patch, delete, head,   *)
(* options, with two arguments or more, the first a string literal without *)
(* '*'; every other statement leaves the routes as they are.               *)
(***************************************************************************)
C22_RouteIffDottedCall ==
  [][ExpressionStatement =>
       IF DottedCall(node) /\ OnTracked(node, appName, routerName) /\ RegistersPath(node)
       THEN YieldsRoute(node)
       ELSE routes' = routes]_vars

\* The same with the calls <obj>[<method>](...) taken in, which is what the
\* visitor does: it never reads callee.computed
RouteIffMemberCall ==
  [][ExpressionStatement =>
       IF MemberCall(node) /\ OnTracked(node, appName, routerName) /\ RegistersPath(node)
       THEN YieldsRoute(node)
       ELSE routes' = routes]_vars


(***************************************************************************)
(* The names bound in a file and the registrations they let through.       *)
(***************************************************************************)
\* The declarations <name> = <callee>() among the first k nodes
Bindings(callee, k) ==
  {i \in 1..k : /\ file.nodes[i].type = "VariableDeclarator"
                /\ file.nodes[i].init.callee.name = callee}

\* The last name bound to <callee>() among the first k nodes, or NULL
LastBound(callee, k) ==
  IF Bindings(callee, k) = {} THEN NULL
  ELSE file.nodes[MaxOf(Bindings(callee, k))].id.name

\* The paths of the registrations of the file that are let through when the
\* one at position i is filtered by the names bound among the first
\* before(i) nodes
RECURSIVE AcceptedPaths(_, _)
AcceptedPaths(i, whole) ==
  IF i > Len(file.nodes) THEN <<>>
  ELSE LET n == file.nodes[i]
           k == IF whole THEN Len(file.nodes) ELSE i - 1
       IN (IF /\ MemberCall(n)
              /\ OnTracked(n, LastBound(<<"e","x","p","r","e","s","s">>, k), LastBound(<<"R","o","u","t","e","r">>, k))
              /\ RegistersPath(n)
           THEN <<n.expression.arguments[1].value>> ELSE <<>>)
          \o AcceptedPaths(i + 1, whole)

(***************************************************************************)
(* C23 as stated: the names that filter every registration of the file are *)
(* the last names bound to express() and to Router() in the whole file, so *)
(* a registration written before the declaration of its name is accepted   *)
(* and one on a name that a later binding supersedes is not.  The          *)
(* collector walks the file once: at a registration it knows the bindings  *)
(* it has visited before it, no others.                                    *)
(***************************************************************************)
C23_BindingsOfWholeFile ==
  Walked => RoutePaths = AcceptedPaths(1, TRUE)

(***************************************************************************)
(* C23, amended: declarations and registrations are visited in one pass,   *)
(* and a registration is filtered by the names last bound to express() and *)
(* to Router() among the declarations visited before it.  A registration   *)
(* before the declaration of its name is not accepted; one on a name that  *)
(* is superseded only after it is accepted, and one on a name superseded   *)
(* before it is not.                                                       *)
(***************************************************************************)
C23_BindingsVisitedBefore ==
  Walked => RoutePaths = AcceptedPaths(1, FALSE)

\* const app = express(); app.get('/a', listTodos); const api = express();
\* the route of app is kept although api supersedes app afterwards
C23_Witness ==
  /\ Walked
  /\ file.nodes = << Declarator(app, <<"e","x","p","r","e","s","s">>),
                     CallStatement(app, <<"g","e","t">>, <<Literal(<<"/","a">>), NamedHandler>>),
                     Declarator(api, <<"e","x","p","r","e","s","s">>) >>
  /\ appName = api
  /\ RoutePaths = << <<"/","a">> >>


(***************************************************************************)
(* C24: in a handler with try and catch, every status code of a status(N)  *)
(* call inside the catch block has a response entry, and "500" is added    *)
(* only when the catch block has no status(N) call: a catch block that     *)
(* responds with status(400) only never brings a "500" entry, on one line  *)
(* or on several.  In the collector the second and third error patterns    *)
(* have no capture group, so a match of /catch.*res\.status\(400\)/        *)
(* registers errorMatch[1] || "500"; and on several lines no pattern       *)
(* matches ('.' stops at the line end), which adds the generic "500".      *)
(***************************************************************************)
\* The status codes of the res.status(N) calls inside the catch block
CatchStatusCalls(sh) ==
  IF sh.hasTry THEN UNION {StatusCallsOf(sh.catch[i]) : i \in 1..Len(sh.catch)} ELSE {}

C24_CatchStatusNoGeneric500 ==
  Pushed /\ shape.hasTry =>
    /\ CatchStatusCalls(shape) \subseteq DOMAIN route.responses
    /\ CatchStatusCalls(shape) # {} /\ "500" \notin StatusCalls(shape) =>
         "500" \notin DOMAIN route.responses


(***************************************************************************)
(* The response calls a handler is written from: the status code of each,  *)
(* its data expression, and the first of the six patterns of               *)
(* responsePatterns that matches it.                                       *)
(***************************************************************************)
ResponseCallOf(s) ==
  CASE s = "jsonTodos" -> [status |-> "200", data |-> <<"t","o","d","o","s">>, shape |-> 2]
    [] s = "send" -> [status |-> "200", data |-> NULL, shape |-> 6]
    [] s = "json" -> [status |-> "200", data |-> NULL, shape |-> 4]
    [] s = "status201" -> [status |-> "201", data |-> <<"n","e","w","T","o","d","o">>, shape |-> 1]
    [] s = "status201send" -> [status |-> "201", data |-> NULL, shape |-> 5]
    [] s = "status201json" -> [status |-> "201", data |-> NULL, shape |-> 3]
    [] s = "guard404" ->
         [status |-> "404", data |-> <<"{"," ","m","e","s","s","a","g","e",":"," ","'","T","o","d","o"," ","n","o","t"," ","f","o","u","n","d","'"," ","}">>, shape |-> 1]
    [] s = "status400" ->
         [status |-> "400", data |-> <<"{"," ","m","e","s","s","a","g","e",":"," ","e","r","r",".","m","e","s","s","a","g","e"," ","}">>, shape |-> 1]
    [] s = "status422" -> [status |-> "422", data |-> NULL, shape |-> 5]

\* The handler is written from response calls only
ResponseCallsOnly(sh) ==
  /\ sh.type = "ArrowFunctionExpression"
  /\ ~sh.hasTry
  /\ sh.pre # <<>>
  /\ \A i \in 1..Len(sh.pre) : sh.pre[i] \in ResponseCallStatements

\* The positions in the handler of the calls with status code c
CallsWith(sh, c) == {i \in 1..Len(sh.pre) : ResponseCallOf(sh.pre[i]).status = c}

\* The response entry derived from the call at position i
EntryOf(sh, i) ==
  LET call == ResponseCallOf(sh.pre[i]) IN
  Response(getResponseDescription(call.status),
           analyzeResponseSchema(call.data, HandlerText(sh), call.status))

\* The call with status code c that is detected first: the patterns are
\* tried one after the other, each over the whole text
FirstDetected(sh, c) ==
  CHOOSE i \in CallsWith(sh, c) :
    \A j \in CallsWith(sh, c) :
      \/ ResponseCallOf(sh.pre[i]).shape < ResponseCallOf(sh.pre[j]).shape
      \/ ResponseCallOf(sh.pre[i]).shape = ResponseCallOf(sh.pre[j]).shape /\ i <= j

\* The status codes of the calls of the handler
CodesOf(sh) == {ResponseCallOf(sh.pre[i]).status : i \in 1..Len(sh.pre)}

(***************************************************************************)
(* C25 as stated: with several response calls of the same status code in a *)
(* handler, of whichever of the six shapes, the entry for the code is      *)
(* derived from the call that stands first in the handler text.  The       *)
(* collector tries the six patterns in turn, each over the whole text, so  *)
(* in res.send(); res.json(todos); the entry for "200" is that of          *)
(* res.json(todos).                                                        *)
(***************************************************************************)
C25_FirstInTextWins ==
  Pushed /\ ResponseCallsOnly(shape) =>
    \A c \in CodesOf(shape) :
      /\ c \in DOMAIN route.responses
      /\ route.responses[c] = EntryOf(shape, MinOf(CallsWith(shape, c)))

(***************************************************************************)
(* C25, amended: the entry for a status code is derived from the call      *)
(* detected first, the detection going through the six shapes in the order *)
(* status(N).json(expr), json(expr), status(N).json(, json(,               *)
(* status(N).send(, send( and, for one shape, through the text from left   *)
(* to right.  A call later in the text determines the entry when its shape *)
(* comes earlier in that order than the shapes of the calls before it.     *)
(***************************************************************************)
C25_FirstDetectedWins ==
  Pushed /\ ResponseCallsOnly(shape) =>
    /\ DOMAIN route.responses = CodesOf(shape)
    /\ \A c \in CodesOf(shape) :
         route.responses[c] = EntryOf(shape, FirstDetected(shape, c))

\* res.send(); res.json(todos); the entry for "200" is the array of
\* res.json(todos), the second call in the text
C25_Witness ==
  /\ Pushed
  /\ shape.pre = <<"send", "jsonTodos">>
  /\ route.responses["200"] = EntryOf(shape, 2)
  /\ route.responses["200"] # EntryOf(shape, 1)
  /\ route.responses["200"].schema.type = "array"


(***************************************************************************)
(* C26: the type of a request-body property follows from its exact name:   *)
(* completed, active and enabled are boolean, age, count and price are     *)
(* integer, and every other name (message, page, discount, language) is    *)
(* string, whether the property is read by member access or by             *)
(* destructuring.  The collector tests with String.prototype.includes, so  *)
(* a name that merely contains a table word gets the type of that word,    *)
(* and the member-access branch alone makes every name containing "id" a   *)
(* string.                                                                 *)
(***************************************************************************)
TableType(name) ==
  CASE name \in {"completed", "active", "enabled"} -> "boolean"
    [] name \in {"age", "count", "price"} -> "integer"
    [] OTHER -> "string"

\* The handler reads the one property name of req.body
ReadsOnly(sh, name) ==
  sh.pre \in {<<Access(name)>>, <<Destructure(name)>>, <<Access(name), Destructure(name)>>}

C26_ExactNameTypes ==
  Pushed =>
    \A name \in BodyNames :
      ReadsOnly(shape, name) =>
        /\ route.requestBody # NULL
        /\ DOMAIN route.requestBody.schema.properties = {name}
        /\ route.requestBody.schema.properties[name] = [type |-> TableType(name)]


(***************************************************************************)
(* The required array of a request body, and the guards of a handler.      *)
(***************************************************************************)
\* The names listed in the required array of the requestBody schema of r
RequiredOf(r) ==
  IF "required" \in DOMAIN r.requestBody.schema
  THEN Names(r.requestBody.schema.required)
  ELSE {}

\* The handler has a guard if (!req.body.<name>) on the property
Guarded(sh, name) == name = "age" /\ \E i \in 1..Len(sh.pre) : sh.pre[i] = "guardAge"

(***************************************************************************)
(* C27 as stated: a request-body property is listed in required if and     *)
(* only if its name is title, name or email, or the handler has a guard    *)
(* such as if (!req.body.age) on it; const { title } = req.body gives the  *)
(* property title of type string and required = [title].  The collector    *)
(* looks for no guard: lines 119 and 171 compare the name with the three   *)
(* names and nothing else marks a property.                                *)
(***************************************************************************)
C27_RequiredByNameOrGuard ==
  Pushed /\ route.requestBody # NULL =>
    /\ \A name \in DOMAIN route.requestBody.schema.properties :
         name \in RequiredOf(route) <=> (name \in {"title", "name", "email"} \/ Guarded(shape, name))
    /\ shape.pre = <<Destructure("title")>> =>
         /\ route.requestBody.schema.properties = ("title" :> [type |-> "string"])
         /\ route.requestBody.schema.required = <<"title">>

(***************************************************************************)
(* C27, amended: a request-body property is listed in required if and only *)
(* if its name is exactly title, name or email; a guard on a property in   *)
(* the handler text has no effect, and a schema none of whose properties   *)
(* has such a name has no required array.  const { title } = req.body      *)
(* gives the property title of type string and required = [title].         *)
(***************************************************************************)
C27_RequiredByNameOnly ==
  Pushed /\ route.requestBody # NULL =>
    /\ \A name \in DOMAIN route.requestBody.schema.properties :
         name \in RequiredOf(route) <=> name \in {"title", "name", "email"}
    /\ RequiredOf(route) \subseteq DOMAIN route.requestBody.schema.properties
    /\ "required" \in DOMAIN route.requestBody.schema => RequiredOf(route) # {}
    /\ shape.pre = <<Destructure("title")>> =>
         /\ route.requestBody.schema.properties = ("title" :> [type |-> "string"])
         /\ route.requestBody.schema.required = <<"title">>

\* if (!req.body.age) return next(err); the property age, and no required array
C27_Witness ==
  /\ Pushed
  /\ shape.pre = <<"guardAge">>
  /\ route.requestBody.schema.properties = ("age" :> [type |-> "integer"])
  /\ "required" \notin DOMAIN route.requestBody.schema


(***************************************************************************)
(* C28: every query parameter name and every request-body property name    *)
(* taken from a destructuring pattern is the bare property identifier: an  *)
(* entry with a default value (page = 1), a rename or a rest element puts  *)
(* no '=', ':', '.' or blank into an emitted name, and the query parameter *)
(* names are pairwise distinct.  The collector splits the text between the *)
(* braces at the commas and trims the pieces (lines 68, 147), so the       *)
(* entry page = 1 is emitted as the name "page = 1".                       *)
(***************************************************************************)
\* The property identifiers the handler reads from req.body
BodyNamesRead(sh) ==
  UNION {Names(BodyDestructuredOf(StatementsOf(sh)[i])) \cup Names(BodyAccessedOf(StatementsOf(sh)[i])) :
           i \in 1..Len(StatementsOf(sh))}

C28_BareIdentifiers ==
  Pushed =>
    /\ \A i \in 1..Len(QueryParametersOf(route)) :
         QueryParametersOf(route)[i].name \in QueryNames(shape)
    /\ \A i, j \in 1..Len(QueryParametersOf(route)) :
         QueryParametersOf(route)[i].name = QueryParametersOf(route)[j].name => i = j
    /\ route.requestBody # NULL =>
         DOMAIN route.requestBody.schema.properties \subseteq BodyNamesRead(shape)


(***************************************************************************)
(* C30: every operation has one tag, chosen in this order: "Todos" or      *)
(* "Users" when the path contains the keyword; else the first path segment *)
(* with its first letter in upper case; "Resources" when that segment is a *)
(* placeholder such as {id}; "default" for the path /.  No first segment   *)
(* is a tag as it is written in lower case, and no placeholder is a tag.   *)
(* The assembler takes the first segment of the emitted path as it is      *)
(* (lines 625-626): the tag of /a is a and the tag of /:a is {a}.          *)
(***************************************************************************)
\* The segments of a path: path.split("/").filter(Boolean)
Segments(path) == SelectSeq(Split(path, "/"), LAMBDA s : s # <<>>)

TitleCased(segment) == toUpperCase(SubSeq(segment, 1, 1)) \o SubSeq(segment, 2, Len(segment))

\* The tag the precedence gives to an emitted path
TagOf(path) ==
  IF Includes(toLowerCase(path), <<"t","o","d","o">>) THEN <<"T","o","d","o","s">>
  ELSE IF Includes(toLowerCase(path), <<"u","s","e","r">>) THEN <<"U","s","e","r","s">>
  ELSE IF Segments(path) = <<>> THEN <<"d","e","f","a","u","l","t">>
  ELSE IF Head(Segments(path))[1] = "{" THEN <<"R","e","s","o","u","r","c","e","s">>
  ELSE TitleCased(Head(Segments(path)))

C30_TagPrecedence ==
  Generated =>
    \A op \in Operations(doc) :
      /\ doc.paths[op[1]][op[2]].tags = <<TagOf(op[1])>>
      /\ doc.paths[op[1]][op[2]].tags[1][1] \notin LowerCh \cup {"{"}
         \/ doc.paths[op[1]][op[2]].tags = << <<"d","e","f","a","u","l","t">> >>


(***************************************************************************)
(* The response calls of the handler of a ResponsesFile, the order they    *)
(* are detected in, and the order the document lists their codes in.       *)
(***************************************************************************)
\* The statements the handler of the file is written from
HandlerStatements ==
  CHOOSE statements \in SeqsUpTo(StatusStatements, MaxStatements) :
    file = ResponsesFile(statements)

\* The status codes of the calls in the order of their detection: shape
\* after shape, and for one shape from left to right
DetectionOrder(statements) ==
  LET K == Len(statements) + 1
      ranks == {ResponseCallOf(statements[i]).shape * K + i : i \in 1..Len(statements)}
  IN InsertionOrder([k \in 1..Cardinality(ranks) |->
                       ResponseCallOf(statements[Ascending(ranks)[k] % K]).status])

\* The keys of the responses of GET / as the written document lists them
ListedCodes == written[1].responses[<<"/">>][<<"g","e","t">>]

IndexIn(seq, x) == CHOOSE i \in 1..Len(seq) : seq[i] = x

\* The number a status code is the decimal writing of
StatusNumber(code) == CHOOSE n \in 0..999 : NumberToString(n) = code

=============================================================================
